---- MODULE Spec2Model ----
(***************************************************************************)
(* Model of pzmapdzi2img: the map-info reader, the bounds calculator, the  *)
(* compatibility check, the multi-map level resolver and the multi-map     *)
(* stitching pipeline (library entry point and GUI generation worker),     *)
(* with the canvas kept pixel by pixel; and, called on their own, the      *)
(* pyramid functions, the tile loader and the single-map stitcher.         *)
(***************************************************************************)
EXTENDS Integers, Sequences, FiniteSets, TLC

\* ------------------------------------------------------------------ bounds
\* longest list of map folders a caller passes
MaxMaps == 2
\* map origins x0, y0 range over -MaxOrigin .. MaxOrigin
MaxOrigin == 1
\* map sizes w, h are 1 or MaxSize
MaxSize == 2
\* widths and heights of layer images range over 1 .. MaxDim
MaxDim == 4
\* requested zoom levels range over 0 .. MaxRequested
MaxRequested == 3
\* the GUI worker stitches 1 .. MaxLayers layers onto one canvas
MaxLayers == 2
\* a level directory holds at most MaxFiles files
MaxFiles == 3
\* a map stitched alone is 1 .. MaxSingle pixels wide and high
MaxSingle == 3

\* ------------------------------------------------------- program constants
\* read_map_info: sqr defaults to 1 when the descriptor has no 'sqr'
DefaultSqr == 1
\* read_map_info: skip defaults to 0 when the descriptor has no 'skip'
DefaultSkip == 0
\* Build 41 standard cell size
StdCellSize == 300

\* ---------------------------------------------------------------- helpers
Min(S) == CHOOSE m \in S : \A n \in S : m <= n
Max(S) == CHOOSE m \in S : \A n \in S : m >= n
MaxOf(a, b) == IF a >= b THEN a ELSE b
MinOf(a, b) == IF a <= b THEN a ELSE b
Range(s) == {s[i] : i \in 1..Len(s)}

RECURSIVE Pow2(_)
Pow2(n) == IF n <= 0 THEN 1 ELSE 2 * Pow2(n - 1)

\* Python int(n / d) for d > 0: truncation towards zero
IntTrunc(n, d) == IF n >= 0 THEN n \div d ELSE -((-n) \div d)

\* Python round(n / d) for d > 0: round half to even
RoundHalfEven(n, d) ==
  LET q == n \div d
      r == n % d
  IN  IF 2 * r < d THEN q
      ELSE IF 2 * r > d THEN q + 1
      ELSE IF q % 2 = 0 THEN q ELSE q + 1

\* a list left in the order it was built in
Unreversed(s) == s

\* list.reverse()
Reverse(s) == [i \in 1..Len(s) |-> s[Len(s) + 1 - i]]

\* ------------------------------------------------------ descriptor values
\* A JSON value of map_info.json, as far as int() and * distinguish values:
\* an integer, a non-numeric text, a text of digits, null, a float beyond
\* the double range (1e999), or no such key.
IntV(n) == [k |-> "int", v |-> n]
TextV == [k |-> "text", v |-> 0]
NumTextV(n) == [k |-> "numtext", v |-> n]
NullV == [k |-> "null", v |-> 0]
InfV == [k |-> "inf", v |-> 0]
AbsentV == [k |-> "absent", v |-> 0]
\* marker for 'the dict has no pz_version key'
NoKey == "<no key>"

\* --------------------------------------------------------------- pyramid
RECURSIVE HalveDown(_)
HalveDown(pyramid) ==
  LET last == pyramid[Len(pyramid)]
  IN  IF last = <<1, 1>> THEN pyramid
      ELSE HalveDown(Append(pyramid, <<(last[1] + 1) \div 2, (last[2] + 1) \div 2>>))

\* build_pyramid: [ok, levels]; ok = FALSE is the ValueError for w<=0 or h<=0
build_pyramid(width, height) ==
  IF width <= 0 \/ height <= 0
  THEN [ok |-> FALSE, levels |-> <<>>]
  ELSE [ok |-> TRUE, levels |-> Reverse(HalveDown(<< <<width, height>> >>))]

calculate_num_levels(width, height) == Len(build_pyramid(width, height).levels)

\* a highest level counted from 1
level_count_as_max(width, height) == calculate_num_levels(width, height)

get_max_level(width, height) == calculate_num_levels(width, height) - 1

\* '(level_width + tile_size - 1) // tile_size' with a divisor that rounds
\* down instead
FloorDiv(n, d) == n \div d

\* '(level_width + tile_size - 1) // tile_size'
CeilDiv(n, d) == (n + d - 1) \div d

\* calculate_tiles_for_level: [ok, cols, rows]; ok = FALSE is the ValueError
\* raised for tile_size <= 0
calculate_tiles_for_level(level_width, level_height, tile_size) ==
  IF tile_size <= 0
  THEN [ok |-> FALSE, cols |-> 0, rows |-> 0]
  ELSE [ok |-> TRUE, cols |-> CeilDiv(level_width, tile_size),
        rows |-> CeilDiv(level_height, tile_size)]

PyramidInfoError(e) ==
  [ok |-> FALSE, err |-> e, pyramid |-> <<>>, num_levels |-> 0, max_level |-> 0,
   min_level |-> 0, tiles_per_level |-> <<>>, total_tiles |-> 0]

\* 'total_tiles += cols * rows' over the levels of the loop
RECURSIVE TotalTiles(_, _)
TotalTiles(tiles, levels) ==
  IF levels = {} THEN 0
  ELSE LET l == CHOOSE n \in levels : TRUE
       IN  tiles[l].cols * tiles[l].rows + TotalTiles(tiles, levels \ {l})

\* a check that lets skip = num_levels through
SkipBeyondLevels(skip, num_levels) == skip > num_levels

\* 'if skip >= num_levels'
SkipTooLarge(skip, num_levels) == skip >= num_levels

\* get_pyramid_info(width, height, tile_size, skip); levels count from 0,
\* tiles_per_level is the dict keyed by level
get_pyramid_info(width, height, tile_size, skip) ==
  IF skip < 0 THEN PyramidInfoError("ValueError")
  ELSE
    LET built == build_pyramid(width, height)
        pyramid == built.levels
        num_levels == Len(pyramid)
        levels == skip..(num_levels - 1)
        tiles == [l \in levels |->
                    calculate_tiles_for_level(pyramid[l + 1][1], pyramid[l + 1][2],
                                              tile_size)]
    IN  IF ~built.ok THEN PyramidInfoError("ValueError")
        ELSE IF SkipTooLarge(skip, num_levels) THEN PyramidInfoError("ValueError")
        ELSE IF \E l \in levels : ~tiles[l].ok THEN PyramidInfoError("ValueError")
        ELSE [ok |-> TRUE, err |-> "", pyramid |-> pyramid,
              num_levels |-> num_levels, max_level |-> num_levels - 1,
              min_level |-> skip,
              tiles_per_level |-> [l \in levels |-> <<tiles[l].cols, tiles[l].rows>>],
              total_tiles |-> TotalTiles(tiles, levels)]

\* ----------------------------------------------------------- map_info.py
RequiredFields == <<"w", "h", "x0", "y0", "cell_size">>
NumericFields == <<"w", "h", "x0", "y0", "cell_size", "skip", "sqr">>

\* shape of what read_map_info returns; ok = FALSE carries the error raised
InfoError(e) ==
  [ok |-> FALSE, err |-> e, w |-> 0, h |-> 0, x0 |-> 0, y0 |-> 0,
   cell_size |-> 0, skip |-> 0, sqr |-> 0, pz_version |-> NoKey]

\* what int(value) raises, "" if it returns
IntRaises(value) ==
  IF value.k = "text" THEN "ValueError"
  ELSE IF value.k = "null" THEN "TypeError"
  ELSE IF value.k = "inf" THEN "OverflowError"
  ELSE ""

\* whether 'sqr * info['cell_size']' in the warning for sqr != 1 raises its
\* TypeError: None has no product, and a text has one with an integer only
ProductRaises(a, b) ==
  \/ a.k = "null"
  \/ b.k = "null"
  \/ a.k \in {"text", "numtext"} /\ b.k # "int"
  \/ b.k \in {"text", "numtext"} /\ a.k # "int"

\* 'except (ValueError, TypeError)' around int(info[field])
CoercionCaught(e) == e \in {"ValueError", "TypeError"}

\* read_map_info(map_path): json is the parsed map_info.json of the folder
read_map_info(folder) ==
  LET json == folder.json
      missing == {i \in 1..Len(RequiredFields) : json[RequiredFields[i]].k = "absent"}
      sqr == IF json.sqr.k = "absent" THEN IntV(DefaultSqr) ELSE json.sqr
      skip == IF json.skip.k = "absent" THEN IntV(DefaultSkip) ELSE json.skip
      filled == [json EXCEPT !.sqr = sqr, !.skip = skip]
      nonnum == {i \in 1..Len(NumericFields) : IntRaises(filled[NumericFields[i]]) # ""}
      first == IntRaises(filled[NumericFields[Min(nonnum)]])
  IN  IF ~folder.exists THEN InfoError("NotFound")
      ELSE IF missing # {} THEN InfoError("MissingFields")
      ELSE IF sqr # IntV(1) /\ ProductRaises(sqr, json.cell_size)
      THEN InfoError("TypeError")
      ELSE IF nonnum # {}
      THEN InfoError(IF CoercionCaught(first) THEN "NonNumericField" ELSE first)
      ELSE IF filled.w.v <= 0 \/ filled.h.v <= 0 THEN InfoError("InvalidDimensions")
      ELSE [ok |-> TRUE, err |-> "", w |-> filled.w.v, h |-> filled.h.v,
            x0 |-> filled.x0.v, y0 |-> filled.y0.v,
            cell_size |-> filled.cell_size.v, skip |-> filled.skip.v,
            sqr |-> filled.sqr.v, pz_version |-> json.pz_version]

\* ------------------------------------------------------------- bounds.py
BoundsError(e) ==
  [ok |-> FALSE, err |-> e, min_x |-> 0, min_y |-> 0, max_x |-> 0, max_y |-> 0,
   width |-> 0, height |-> 0, maps |-> <<>>]

\* first error raised while the descriptors are read in list order, "" if none
FirstReadError(map_paths) ==
  LET bad == {i \in 1..Len(map_paths) : ~read_map_info(map_paths[i]).ok}
  IN  IF bad = {} THEN "" ELSE read_map_info(map_paths[Min(bad)]).err

\* a far edge that forgets the map's extent
FarEdgeNoExtent(origin, extent) == origin

\* line 57/58: the far edge of a map on one axis
FarEdge(origin, extent) == origin + extent

\* an offset taken the wrong way round
PlacementOffsetReversed(origin, global_min) == global_min - origin

\* lines 66-67: where a map goes on the global canvas, on one axis
PlacementOffset(origin, global_min) == origin - global_min

calculate_global_bounds(map_paths) ==
  IF Len(map_paths) = 0 THEN BoundsError("NoMaps")
  ELSE IF FirstReadError(map_paths) # "" THEN BoundsError(FirstReadError(map_paths))
  ELSE
    LET maps_data == [i \in 1..Len(map_paths) |-> read_map_info(map_paths[i])]
        min_x == Min({maps_data[i].x0 : i \in 1..Len(maps_data)})
        min_y == Min({maps_data[i].y0 : i \in 1..Len(maps_data)})
        max_x == Max({FarEdge(maps_data[i].x0, maps_data[i].w) : i \in 1..Len(maps_data)})
        max_y == Max({FarEdge(maps_data[i].y0, maps_data[i].h) : i \in 1..Len(maps_data)})
    IN  [ok |-> TRUE, err |-> "",
         min_x |-> min_x, min_y |-> min_y, max_x |-> max_x, max_y |-> max_y,
         width |-> max_x - min_x, height |-> max_y - min_y,
         maps |-> [i \in 1..Len(maps_data) |->
                    [name |-> map_paths[i].name,
                     x0 |-> maps_data[i].x0, y0 |-> maps_data[i].y0,
                     w |-> maps_data[i].w, h |-> maps_data[i].h,
                     offset_x |-> PlacementOffset(maps_data[i].x0, min_x),
                     offset_y |-> PlacementOffset(maps_data[i].y0, min_y)]]]

get_map_offset(map_info, global_bounds) ==
  << map_info.x0 - global_bounds.min_x, map_info.y0 - global_bounds.min_y >>

\* Python None for the optional results
NoneV == [some |-> FALSE, v |-> 0]
Some(n) == [some |-> TRUE, v |-> n]
NoneStr == "<None>"

CompatRaised(e) ==
  [raised |-> e, compatible |-> FALSE, sqr |-> NoneV, cell_size |-> NoneV,
   pz_version |-> NoneStr, warnings |-> <<>>, errors |-> <<>>]

validate_map_compatibility(map_paths) ==
  IF Len(map_paths) = 0
  THEN [CompatRaised("") EXCEPT !.errors = <<"No map paths provided">>]
  ELSE IF FirstReadError(map_paths) # "" THEN CompatRaised(FirstReadError(map_paths))
  ELSE
    LET maps_info == [i \in 1..Len(map_paths) |-> read_map_info(map_paths[i])]
        sqr_values == {maps_info[i].sqr : i \in 1..Len(maps_info)}
        sqr_compatible == Cardinality(sqr_values) = 1
        cell_size_values == {maps_info[i].cell_size : i \in 1..Len(maps_info)}
        cell_size_compatible == Cardinality(cell_size_values) = 1
        \* m['info']['pz_version'] is a plain subscript: KeyError without the key
        key_error == \E i \in 1..Len(maps_info) : maps_info[i].pz_version = NoKey
        version_values == {maps_info[i].pz_version : i \in 1..Len(maps_info)}
        version_compatible == Cardinality(version_values) = 1
        pz_version == IF version_compatible THEN CHOOSE v \in version_values : TRUE
                      ELSE NoneStr
        errors == (IF sqr_compatible THEN <<>> ELSE <<"different sqr">>)
                  \o (IF cell_size_compatible THEN <<>> ELSE <<"different cell_size">>)
        warnings == (IF version_compatible THEN <<>> ELSE <<"different versions">>)
                    \o (IF pz_version # NoneStr /\ pz_version # "" /\ pz_version # "B41"
                        THEN <<"non-B41 version">> ELSE <<>>)
    IN  IF key_error THEN CompatRaised("KeyError")
        ELSE [raised |-> "", compatible |-> Len(errors) = 0,
              sqr |-> IF sqr_compatible THEN Some(CHOOSE v \in sqr_values : TRUE) ELSE NoneV,
              cell_size |-> IF cell_size_compatible
                            THEN Some(CHOOSE v \in cell_size_values : TRUE) ELSE NoneV,
              pz_version |-> pz_version, warnings |-> warnings, errors |-> errors]

\* ------------------------------------------------- stitcher.py: levels
\* a scale factor 0.5 ** zoom_out, kept exact as the fraction num / den
LevelsError(e) ==
  [ok |-> FALSE, err |-> e, highest_max |-> 0, zoom_out |-> 0,
   scale_factor |-> [num |-> 1, den |-> 1], map_info |-> <<>>]

\* a level check that never rejects
LevelNeverTooHigh(zoom_out) == FALSE

\* line 214: the requested level exceeds every map's maximum
LevelTooHigh(zoom_out) == zoom_out < 0

\* an actual level that is not clamped at level 0
ActualLevelUnclamped(max_level, zoom_out) == max_level - zoom_out

\* line 219
ActualLevel(max_level, zoom_out) == MaxOf(0, max_level - zoom_out)

\* a scale factor that halves once however far the view is zoomed out
ScaleFactorHalf(zoom_out) == [num |-> 1, den |-> IF zoom_out = 0 THEN 1 ELSE 2]

\* line 226: 0.5 ** zoom_out
ScaleFactor(zoom_out) == [num |-> 1, den |-> Pow2(zoom_out)]

_calculate_map_levels(map_paths, requested_level) ==
  IF \E i \in 1..Len(map_paths) :
       ~build_pyramid(map_paths[i].dzi.width, map_paths[i].dzi.height).ok
  THEN LevelsError("InvalidDimensions")
  ELSE IF Len(map_paths) = 0 THEN LevelsError("EmptySequence")
  ELSE
    LET max_levels == [i \in 1..Len(map_paths) |->
                         get_max_level(map_paths[i].dzi.width, map_paths[i].dzi.height)]
        highest_max == Max(Range(max_levels))
        zoom_out == highest_max - requested_level
    IN  IF LevelTooHigh(zoom_out) THEN LevelsError("LevelOutOfRange")
        ELSE [ok |-> TRUE, err |-> "", highest_max |-> highest_max,
              zoom_out |-> zoom_out,
              scale_factor |-> ScaleFactor(zoom_out),
              map_info |-> [i \in 1..Len(map_paths) |->
                             [max_level |-> max_levels[i],
                              actual_level |-> ActualLevel(max_levels[i], zoom_out),
                              tile_size |-> map_paths[i].dzi.tile_size]]]

\* -------------------------------------------------------- tile_loader.py
\* One entry of a level directory as Path.iterdir() yields it: name_ok is
\* whether the pattern of parse_tile_coords accepts the name, x and y are the
\* numbers it reads, ext is the lower-cased suffix without its dot, decodes
\* is whether load_tile gets an image out of the file, size and alpha
\* describe that image.
Entry(x, y, ext, name_ok, is_file, decodes, size, alpha) ==
  [x |-> x, y |-> y, ext |-> ext, name_ok |-> name_ok, is_file |-> is_file,
   decodes |-> decodes, size |-> size, alpha |-> alpha]

\* The files of one level directory of an export: the grid of
\* calculate_tiles_for_level over that level's size, edge tiles smaller.
\* An export whose tiles are "corrupt" has the files, none of them an image;
\* one whose tiles are "clear" has fully transparent images; one whose tiles
\* are "absent" has no level directories.
TilesOnDisk(folder, level) ==
  LET pyramid == build_pyramid(folder.dzi.width, folder.dzi.height).levels
      ts == folder.dzi.tile_size
  IN  IF folder.tiles \notin {"full", "clear", "corrupt"} \/ level + 1 > Len(pyramid)
      THEN {}
      ELSE LET lw == pyramid[level + 1][1]
               lh == pyramid[level + 1][2]
               grid == calculate_tiles_for_level(lw, lh, ts)
           IN  {Entry(tx, ty, "webp", TRUE, TRUE, folder.tiles # "corrupt",
                      <<MinOf(ts, lw - tx * ts), MinOf(ts, lh - ty * ts)>>,
                      IF folder.tiles = "clear" THEN "clear" ELSE "opaque") :
                  tx \in 0..(grid.cols - 1), ty \in 0..(grid.rows - 1)}

\* tile_folder.exists()
LevelExists(folder, level) == TilesOnDisk(folder, level) # {}

\* the orders in which iterdir() may yield the entries of a directory
Listings(S) ==
  {s \in [1..Cardinality(S) -> S] :
     \A i, j \in 1..Cardinality(S) : s[i] = s[j] => i = j}

AllFormats == {"webp", "png", "jpg", "jpeg"}
\* tile_format=None
AnyFormat == "any"

Extensions(tile_format) ==
  IF tile_format # AnyFormat THEN {tile_format} ELSE AllFormats

\* a filter that looks at is_file() only
IsAnyFile(entry, extensions) == entry.is_file

\* 'tile_file.is_file() and tile_file.suffix.lower() in extensions'
IsTileFile(entry, extensions) == entry.is_file /\ entry.ext \in extensions

\* what 'x, y = parse_tile_coords(tile_file.name); img = load_tile(tile_file)'
\* raises: parse_tile_coords a ValueError for a name the pattern rejects,
\* load_tile an IOError for whatever Image.open/convert/load raise
Raises(entry) ==
  IF ~entry.name_ok THEN "ValueError"
  ELSE IF ~entry.decodes THEN "IOError"
  ELSE ""

\* an except clause for the parsing error only
HandledNameOnly(e) == e = "ValueError"

\* 'except (ValueError, IOError)'
Handled(e) == e \in {"ValueError", "IOError"}

\* the dict appended to tiles: x, y, image (size, alpha), path (x, y, ext)
Tile(entry) ==
  [x |-> entry.x, y |-> entry.y, ext |-> entry.ext, size |-> entry.size,
   alpha |-> entry.alpha]

\* tiles.sort(key=lambda t: (t['y'], t['x']))
TileBefore(a, b) == a.y < b.y \/ (a.y = b.y /\ a.x <= b.x)

\* list.sort is stable: a tile goes after the tiles whose key is not larger
InsertTile(sorted, t) ==
  LET k == Cardinality({i \in 1..Len(sorted) : TileBefore(sorted[i], t)})
  IN  SubSeq(sorted, 1, k) \o <<t>> \o SubSeq(sorted, k + 1, Len(sorted))

RECURSIVE SortTiles(_)
SortTiles(tiles) ==
  IF tiles = <<>> THEN <<>>
  ELSE InsertTile(SortTiles(SubSeq(tiles, 1, Len(tiles) - 1)), tiles[Len(tiles)])

\* load_tiles_for_level: dir_exists is tile_folder.exists(), listing is what
\* iterdir() yields, in its order.  [raised, tiles]: raised is the exception
\* that leaves the scanning loop, "" if none does.
load_tiles_for_level(dir_exists, listing, tile_format) ==
  IF ~dir_exists THEN [raised |-> "", tiles |-> <<>>]
  ELSE LET extensions == Extensions(tile_format)
           scanned == SelectSeq(listing, LAMBDA e : IsTileFile(e, extensions))
           escaping == {k \in 1..Len(scanned) :
                          Raises(scanned[k]) # "" /\ ~Handled(Raises(scanned[k]))}
           kept == SelectSeq(scanned, LAMBDA e : Raises(e) = "")
       IN  IF escaping # {}
           THEN [raised |-> Raises(scanned[Min(escaping)]), tiles |-> <<>>]
           ELSE [raised |-> "",
                 tiles |-> SortTiles([k \in 1..Len(kept) |-> Tile(kept[k])])]

\* ---------------------------------------------- stitcher.py: compositor
\* a test that keeps only the tiles that lie wholly on the canvas
_is_wholly_within_canvas(x, y, tile_size, canvas_size) ==
  /\ x >= 0
  /\ y >= 0
  /\ x + tile_size[1] <= canvas_size[1]
  /\ y + tile_size[2] <= canvas_size[2]

_is_within_canvas(x, y, tile_size, canvas_size) ==
  IF x >= canvas_size[1] \/ y >= canvas_size[2] THEN FALSE
  ELSE IF x + tile_size[1] <= 0 \/ y + tile_size[2] <= 0 THEN FALSE
  ELSE TRUE

\* The body of the tile loop of _stitch_map_onto_canvas for one tile:
\* where the tile goes, how large it is there, and whether it is pasted.
PlaceTile(tile, idx, info, world_x, world_y, bounds, scale_factor, canvas_size) ==
  LET level_scale_up == Pow2(info.max_level - info.actual_level)
      tile_full_x == world_x + (tile.x * info.tile_size * level_scale_up)
      tile_full_y == world_y + (tile.y * info.tile_size * level_scale_up)
      canvas_x == RoundHalfEven((tile_full_x - bounds.min_x) * scale_factor.num,
                                scale_factor.den)
      canvas_y == RoundHalfEven((tile_full_y - bounds.min_y) * scale_factor.num,
                                scale_factor.den)
      canvas_w == RoundHalfEven(tile.size[1] * level_scale_up * scale_factor.num,
                                scale_factor.den)
      canvas_h == RoundHalfEven(tile.size[2] * level_scale_up * scale_factor.num,
                                scale_factor.den)
      resized == tile.size # <<canvas_w, canvas_h>>
      img_size == IF resized THEN <<MaxOf(1, canvas_w), MaxOf(1, canvas_h)>>
                  ELSE tile.size
  IN  [map |-> idx, x |-> tile.x, y |-> tile.y, ext |-> tile.ext,
       alpha |-> tile.alpha,
       rel_x |-> tile_full_x - bounds.min_x, rel_y |-> tile_full_y - bounds.min_y,
       canvas_x |-> canvas_x, canvas_y |-> canvas_y,
       canvas_w |-> canvas_w, canvas_h |-> canvas_h,
       natural |-> tile.size, resized |-> resized, size |-> img_size,
       pasted |-> _is_within_canvas(canvas_x, canvas_y, img_size, canvas_size)]

\* a compositor for which a map without tiles is an error
MissingTilesRaise(tiles) == IF Len(tiles) = 0 THEN "ValueError" ELSE ""

\* 'if not tiles: logger.warning(...); return': nothing is raised
MissingTiles(tiles) == ""

\* _stitch_map_onto_canvas: what it raises before its loop, and the tiles of
\* map idx in loading order, each placed; listing is the order in which the
\* level directory is enumerated
_stitch_map_onto_canvas(canvas_size, map_paths, idx, map_levels, bounds, scale_factor, listing) ==
  LET info == map_levels.map_info[idx]
      loaded == load_tiles_for_level(LevelExists(map_paths[idx], info.actual_level),
                                     listing, AnyFormat)
      tiles == loaded.tiles
      map_info_data == read_map_info(map_paths[idx])
      world_x == -map_info_data.x0
      world_y == -map_info_data.y0
  IN  [raised |-> IF loaded.raised # "" THEN loaded.raised ELSE MissingTiles(tiles),
       steps |-> [k \in 1..Len(tiles) |->
                    PlaceTile(tiles[k], idx, info, world_x, world_y, bounds,
                              scale_factor, canvas_size)]]

\* the tiles that reach output_image.alpha_composite, in order
Pasted(steps) == SelectSeq(steps, LAMBDA s : s.pasted)

\* Image.alpha_composite rejects a negative destination in some Pillow
\* releases and accepts it in others
NegativeDest(s) == s.canvas_x < 0 \/ s.canvas_y < 0

\* -------------------------------------------------- the image contents
\* A pixel is its colour, named by the tile pixel it was read from (map,
\* tile (x, y, ext) and offset (u, v) in the pasted image), and its alpha a,
\* 0 or 255; Transparent is the (0, 0, 0, 0) of a new image.
Transparent ==
  [map |-> 0, x |-> 0, y |-> 0, ext |-> "", u |-> 0, v |-> 0, a |-> 0]

\* pixel (u, v) of the image pasted in step s
ImagePixel(s, u, v) ==
  [map |-> s.map, x |-> s.x, y |-> s.y, ext |-> s.ext, u |-> u, v |-> v,
   a |-> IF s.alpha = "opaque" THEN 255 ELSE 0]

\* a blend that keeps what is already there
Under(dst, src) == IF dst.a = 0 THEN src ELSE dst

\* alpha compositing of src over dst, for alpha 0 or 255: where the source
\* alpha is 0 the destination pixel is kept, colour included
Over(dst, src) == IF src.a = 0 THEN dst ELSE src

\* Image.new('RGBA', size, (0, 0, 0, 0))
NewImage(size) ==
  [p \in (0..(size[1] - 1)) \X (0..(size[2] - 1)) |-> Transparent]

\* output_image.alpha_composite(tile_img, (canvas_x, canvas_y)): the part of
\* the tile inside the image is blended over it
alpha_composite(pixels, s) ==
  [p \in DOMAIN pixels |->
     IF /\ p[1] >= s.canvas_x /\ p[1] < s.canvas_x + s.size[1]
        /\ p[2] >= s.canvas_y /\ p[2] < s.canvas_y + s.size[2]
     THEN Over(pixels[p], ImagePixel(s, p[1] - s.canvas_x, p[2] - s.canvas_y))
     ELSE pixels[p]]

\* the alpha_composite calls of a loop over tiles, one after the other
RECURSIVE CompositeAll(_, _)
CompositeAll(pixels, steps) ==
  IF steps = <<>> THEN pixels
  ELSE CompositeAll(alpha_composite(pixels, Head(steps)), Tail(steps))

\* ------------------------------------------ stitcher.py: stitch_single_map
\* get_tile_bounds(tiles)
get_tile_bounds(tiles) ==
  IF Len(tiles) = 0
  THEN [min_x |-> 0, min_y |-> 0, max_x |-> 0, max_y |-> 0, cols |-> 0, rows |-> 0]
  ELSE LET x_coords == {tiles[k].x : k \in 1..Len(tiles)}
           y_coords == {tiles[k].y : k \in 1..Len(tiles)}
       IN  [min_x |-> Min(x_coords), min_y |-> Min(y_coords),
            max_x |-> Max(x_coords), max_y |-> Max(y_coords),
            cols |-> Max(x_coords) - Min(x_coords) + 1,
            rows |-> Max(y_coords) - Min(y_coords) + 1]

\* output_width and output_height of stitch_single_map (lines 79-86)
OutputSize(tiles, tile_size) ==
  LET tile_bounds == get_tile_bounds(tiles)
      rightmost == {k \in 1..Len(tiles) : tiles[k].x = tile_bounds.max_x}
      bottommost == {k \in 1..Len(tiles) : tiles[k].y = tile_bounds.max_y}
      rightmost_width == Max({tiles[k].size[1] : k \in rightmost})
      bottommost_height == Max({tiles[k].size[2] : k \in bottommost})
  IN  << tile_bounds.min_x * tile_size + (tile_bounds.cols - 1) * tile_size
           + rightmost_width,
         tile_bounds.min_y * tile_size + (tile_bounds.rows - 1) * tile_size
           + bottommost_height >>

\* a paste at the tile's index instead of its pixel position
TileOriginUnscaled(tile, tile_size) == <<tile.x, tile.y>>

\* 'pixel_x = tile['x'] * tile_size', likewise pixel_y
TileOrigin(tile, tile_size) == <<tile.x * tile_size, tile.y * tile_size>>

SingleError(e) ==
  [ok |-> FALSE, err |-> e, size |-> <<0, 0>>, pixels |-> NewImage(<<0, 0>>)]

\* stitch_single_map(map_path, layer, level, output_path): the image handed
\* to _save_image; listing is the order in which the level directory is
\* enumerated
stitch_single_map(folder, level, listing) ==
  IF ~folder.exists THEN SingleError("FileNotFoundError")
  ELSE
    LET tile_size == folder.dzi.tile_size
        max_level == get_max_level(folder.dzi.width, folder.dzi.height)
        loaded == load_tiles_for_level(LevelExists(folder, level), listing, AnyFormat)
        tiles == loaded.tiles
    IN  IF ~(0 <= level /\ level <= max_level) THEN SingleError("ValueError")
        ELSE IF loaded.raised # "" THEN SingleError(loaded.raised)
        ELSE IF Len(tiles) = 0 THEN SingleError("ValueError")
        ELSE LET size == OutputSize(tiles, tile_size)
                 steps == [k \in 1..Len(tiles) |->
                             [map |-> 1, x |-> tiles[k].x, y |-> tiles[k].y,
                              ext |-> tiles[k].ext, alpha |-> tiles[k].alpha,
                              canvas_x |-> TileOrigin(tiles[k], tile_size)[1],
                              canvas_y |-> TileOrigin(tiles[k], tile_size)[2],
                              size |-> tiles[k].size]]
             IN  [ok |-> TRUE, err |-> "", size |-> size,
                  pixels |-> CompositeAll(NewImage(size), steps)]

\* ------------------------------------------------------------ the inputs
\* A map folder on disk: its map_info.json, its layer .dzi and its tiles;
\* exists = FALSE is a path with no folder behind it.
Folder(name, x0, y0, w, h, cell_size, sqr, skip, pz_version, tile_size) ==
  [name |-> name,
   json |-> [w |-> IntV(w), h |-> IntV(h), x0 |-> IntV(x0), y0 |-> IntV(y0),
             cell_size |-> IntV(cell_size), sqr |-> sqr, skip |-> skip,
             pz_version |-> pz_version],
   dzi |-> [width |-> w, height |-> h, tile_size |-> tile_size],
   tiles |-> "full",
   exists |-> TRUE]

Origins == (0 - MaxOrigin)..MaxOrigin
Dims == 1..MaxDim
\* a tall and a wide map
Shapes == {<<1, MaxSize>>, <<MaxSize, 1>>}
Levels == 0..MaxRequested

\* lists of 1 .. MaxMaps folders drawn from a set
ListsOf(S) == UNION {[1..n -> S] : n \in 1..MaxMaps}

\* the two maps of the documented bounds example
ExampleA == Folder("A", -100, -100, 200, 200, StdCellSize, IntV(1), IntV(0), "B41", 300)
ExampleB == Folder("B", 0, 0, 100, 100, StdCellSize, IntV(1), IntV(0), "B41", 300)
\* the two maps of the documented level example: max levels 15 and 11
ExampleBase == Folder("base_top", 0, 0, 19800, 15900, StdCellSize, IntV(1), IntV(0),
                      "B41", 300)
ExampleMod == Folder("mod", 0, 0, 300, 1200, StdCellSize, IntV(1), IntV(0), "B41", 300)

\* folders that differ in position and size only
GeomFolders ==
  {Folder("geom", x0, y0, sh[1], sh[2], StdCellSize, IntV(1), IntV(0), "B41", 2) :
     x0 \in Origins, y0 \in Origins, sh \in Shapes}
  \cup {ExampleA, ExampleB}

\* folders that differ in the compatibility attributes only
InfoFolders ==
  {Folder("info", 0, 0, 2, 2, cell_size, sqr, skip, pz_version, 2) :
     cell_size \in {StdCellSize, 150}, sqr \in {AbsentV, IntV(1), IntV(2)},
     skip \in {AbsentV, IntV(0)}, pz_version \in {NoKey, "B41", "B42"}}

\* folders that differ in the size of the layer image only
DziFolders ==
  {Folder("dzi", 0, 0, w, h, StdCellSize, IntV(1), IntV(0), "B41", 2) :
     w \in Dims, h \in Dims}

\* The exports the stitching runs work on: a base map, maps west and east of
\* it, maps whose descriptors differ in or lack the optional attributes, and
\* a folder that is not there.
Disk ==
  { Folder("base",    0,  0, 4, 3, StdCellSize, IntV(1), IntV(0), "B41", 2),
    Folder("west",   -2, -1, 2, 2, StdCellSize, IntV(1), IntV(0), "B41", 2),
    Folder("east",    1,  1, 3, 3, StdCellSize, IntV(1), IntV(0), "B41", 3),
    Folder("sqr2",    0,  0, 2, 2, StdCellSize, IntV(2), IntV(0), "B41", 2),
    Folder("cell150", 0,  0, 2, 2, 150,         IntV(1), IntV(0), "B41", 2),
    Folder("b42",     0,  0, 2, 2, StdCellSize, IntV(1), IntV(0), "B42", 2),
    Folder("plain",   0,  0, 2, 2, StdCellSize, AbsentV, AbsentV, "B41", 2),
    Folder("nover",   0,  0, 2, 2, StdCellSize, IntV(1), IntV(0), NoKey, 2),
    [Folder("gone",   0,  0, 2, 2, StdCellSize, IntV(1), IntV(0), "B41", 2)
       EXCEPT !.exists = FALSE],
    [Folder("bare",   0,  0, 2, 2, StdCellSize, IntV(1), IntV(0), "B41", 2)
       EXCEPT !.tiles = "absent"],
    [Folder("junk",   0,  0, 2, 2, StdCellSize, IntV(1), IntV(0), "B41", 2)
       EXCEPT !.tiles = "corrupt"] }

\* ---------------------------------------------------------------- state
VARIABLES
  mode,        \* the entry point that runs
  map_paths,   \* the caller's list of map folders
  level,       \* the requested zoom level
  layers,      \* number of layers the run stitches
  pc,          \* the phase about to run
  compat,      \* result of validate_map_compatibility
  bounds,      \* result of calculate_global_bounds
  map_levels,  \* result of _calculate_map_levels
  canvas,      \* the output image, once allocated
  layer_idx,   \* layer being stitched
  map_idx,     \* map being stitched
  placed,      \* the alpha_composite calls made on the canvas, in order
  saved,       \* number of output files written
  error,       \* the exception that ended the run
  phases,      \* the phases run so far
  args,        \* the arguments of a call of one function on its own
  result,      \* what that call returned
  window       \* the MainWindow, its worker threads and pending callbacks

vars == <<mode, map_paths, level, layers, pc, compat, bounds, map_levels,
          canvas, layer_idx, map_idx, placed, saved, error, phases, args,
          result, window>>

\* MainWindow.__init__: not generating, the Generate button disabled;
\* valid is whether maps, layers and an output path are selected, workers
\* holds the position of every thread started, after the callbacks handed
\* to root.after that the main loop has not run yet
NewWindow ==
  [is_generating |-> FALSE, generate_button |-> "disabled", controls |-> "normal",
   valid |-> FALSE, clicks |-> 0, workers |-> <<>>, after |-> <<>>,
   completed |-> 0]

NoCanvas == [allocated |-> FALSE, size |-> <<0, 0>>, pixels |-> NewImage(<<0, 0>>)]

Fresh ==
  /\ compat = CompatRaised("unset")
  /\ bounds = BoundsError("unset")
  /\ map_levels = LevelsError("unset")
  /\ canvas = NoCanvas
  /\ layer_idx = 0
  /\ map_idx = 0
  /\ placed = <<>>
  /\ saved = 0
  /\ error = ""
  /\ phases = <<>>
  /\ result = <<>>
  /\ window = NewWindow

\* stitch_multi_map(map_paths, layer, level, output_path) is called, or the
\* GUI's Generate starts _generate_image_thread on the selected maps/layers
Init ==
  /\ mode \in {"stitch_multi_map", "gui"}
  /\ map_paths \in ListsOf(Disk) \cup (IF mode = "gui" THEN {} ELSE {<<>>})
  /\ level \in Levels
  /\ layers \in (IF mode = "gui" THEN 1..MaxLayers ELSE {1})
  /\ pc = IF mode = "gui" THEN "ComputeBounds" ELSE "Validate"
  /\ args = <<>>
  /\ Fresh

Fail(e) ==
  /\ pc' = "Failed"
  /\ error' = e

\* stitch_multi_map lines 130-141
Validate ==
  /\ pc = "Validate"
  /\ mode = "stitch_multi_map"
  /\ IF \E i \in 1..Len(map_paths) : ~map_paths[i].exists
     THEN Fail("NotFound") /\ compat' = compat
     ELSE LET c == validate_map_compatibility(map_paths)
          IN  /\ compat' = c
              /\ IF c.raised # "" THEN Fail(c.raised)
                 ELSE IF ~c.compatible THEN Fail("IncompatibleMaps")
                 ELSE pc' = "ComputeBounds" /\ error' = error
  /\ phases' = Append(phases, "Validate")
  /\ UNCHANGED <<window, args, result, mode, map_paths, level, layers, bounds, map_levels, canvas,
                 layer_idx, map_idx, placed, saved>>

\* stitch_multi_map lines 143-147, _generate_image_thread line 363
ComputeBounds ==
  /\ pc = "ComputeBounds"
  /\ mode \in {"stitch_multi_map", "gui"}
  /\ LET b == calculate_global_bounds(map_paths)
     IN  /\ bounds' = b
         /\ IF ~b.ok THEN Fail(b.err)
            ELSE pc' = "ResolveLevels" /\ error' = error
  /\ phases' = Append(phases, "ComputeBounds")
  /\ UNCHANGED <<window, args, result, mode, map_paths, level, layers, compat, map_levels, canvas,
                 layer_idx, map_idx, placed, saved>>

\* stitch_multi_map lines 149-151, _generate_image_thread line 370
ResolveLevels ==
  /\ pc = "ResolveLevels"
  /\ LET l == _calculate_map_levels(map_paths, level)
     IN  /\ map_levels' = l
         /\ IF ~l.ok THEN Fail(l.err)
            ELSE pc' = "AllocateCanvas" /\ error' = error
  /\ phases' = Append(phases, "ResolveLevels")
  /\ UNCHANGED <<window, args, result, mode, map_paths, level, layers, compat, bounds, canvas,
                 layer_idx, map_idx, placed, saved>>

\* a canvas sized with round() instead
CanvasSizeRounded(global_bounds, scale_factor) ==
  << RoundHalfEven(global_bounds.width * scale_factor.num, scale_factor.den),
     RoundHalfEven(global_bounds.height * scale_factor.num, scale_factor.den) >>

\* 'canvas_width = int(bounds['width'] * scale_factor)', likewise the height
CanvasSize(global_bounds, scale_factor) ==
  << IntTrunc(global_bounds.width * scale_factor.num, scale_factor.den),
     IntTrunc(global_bounds.height * scale_factor.num, scale_factor.den) >>

\* stitch_multi_map lines 153-162, _generate_image_thread lines 371-379
AllocateCanvas ==
  /\ pc = "AllocateCanvas"
  /\ LET size == CanvasSize(bounds, map_levels.scale_factor)
     IN  canvas' = [allocated |-> TRUE, size |-> size, pixels |-> NewImage(size)]
  /\ layer_idx' = 1
  /\ map_idx' = 1
  /\ pc' = "CompositeMap"
  /\ phases' = Append(phases, "AllocateCanvas")
  /\ UNCHANGED <<window, args, result, mode, map_paths, level, layers, compat, bounds, map_levels,
                 placed, saved, error>>

\* a loop that stops after its first map
NoMoreMaps(idx, map_list) == FALSE

\* 'for idx, map_path in enumerate(map_paths, 1)': more maps to stitch
MoreMaps(idx, map_list) == idx < Len(map_list)

\* a loop that takes the maps last to first
EnumeratedBackwards(idx, map_list) == Len(map_list) + 1 - idx

\* 'for idx, map_path in enumerate(map_paths, 1)': the map of iteration idx
Enumerated(idx, map_list) == idx

\* one call of _stitch_map_onto_canvas from the loop over (layers and) maps
CompositeMap ==
  /\ pc = "CompositeMap"
  /\ LET map == Enumerated(map_idx, map_paths)
     IN  \E listing \in Listings(TilesOnDisk(map_paths[map],
                                            map_levels.map_info[map].actual_level)) :
       LET call == _stitch_map_onto_canvas(canvas.size, map_paths, map,
                                           map_levels, bounds,
                                           map_levels.scale_factor, listing)
           steps == Pasted(call.steps)
           neg == {k \in 1..Len(steps) : NegativeDest(steps[k])}
       IN  IF call.raised # ""
           THEN /\ Fail(call.raised)
                /\ UNCHANGED <<layer_idx, map_idx, placed, canvas>>
           ELSE \/ /\ placed' = placed \o steps
                   /\ canvas' = [canvas EXCEPT
                                   !.pixels = CompositeAll(canvas.pixels, steps)]
                   /\ error' = error
                   /\ IF MoreMaps(map_idx, map_paths)
                      THEN /\ map_idx' = map_idx + 1
                           /\ UNCHANGED <<layer_idx, pc>>
                      ELSE IF layer_idx < layers
                      THEN /\ map_idx' = 1
                           /\ layer_idx' = layer_idx + 1
                           /\ pc' = pc
                      ELSE /\ pc' = "Save"
                           /\ UNCHANGED <<layer_idx, map_idx>>
                \/ /\ neg # {}
                   /\ placed' = placed \o SubSeq(steps, 1, Min(neg) - 1)
                   /\ canvas' = [canvas EXCEPT
                                   !.pixels = CompositeAll(canvas.pixels,
                                                SubSeq(steps, 1, Min(neg) - 1))]
                   /\ Fail("ValueError")
                   /\ UNCHANGED <<layer_idx, map_idx>>
  /\ phases' = Append(phases, "CompositeMap")
  /\ UNCHANGED <<window, args, result, mode, map_paths, level, layers, compat, bounds,
                 map_levels, saved>>

\* _save_image (stitch_multi_map line 179), save_image.save (worker line 433)
Save ==
  /\ pc = "Save"
  /\ saved' = saved + 1
  /\ pc' = "Done"
  /\ phases' = Append(phases, "Save")
  /\ UNCHANGED <<window, args, result, mode, map_paths, level, layers, compat, bounds, map_levels,
                 canvas, layer_idx, map_idx, placed, error>>

Next ==
  \/ Validate
  \/ ComputeBounds
  \/ ResolveLevels
  \/ AllocateCanvas
  \/ CompositeMap
  \/ Save

Spec == Init /\ [][Next]_vars

\* --------------------------------------------- the library calls alone
\* A caller calls one of calculate_global_bounds, validate_map_compatibility
\* or _calculate_map_levels on a list of folders.
InitCalls ==
  /\ \/ mode = "calculate_global_bounds" /\ map_paths \in ListsOf(GeomFolders)
                                         /\ level = 0
     \/ mode = "validate_map_compatibility" /\ map_paths \in ListsOf(InfoFolders)
                                            /\ level = 0
     \/ mode = "_calculate_map_levels" /\ map_paths \in ListsOf(DziFolders)
                                       /\ level \in Levels
     \/ mode = "_calculate_map_levels" /\ map_paths = <<ExampleBase, ExampleMod>>
                                       /\ level \in 14..16
  /\ layers = 1
  /\ pc = "call"
  /\ args = <<>>
  /\ Fresh

CallBounds ==
  /\ pc = "call"
  /\ mode = "calculate_global_bounds"
  /\ bounds' = calculate_global_bounds(map_paths)
  /\ pc' = "return"
  /\ UNCHANGED <<window, args, result, mode, map_paths, level, layers, compat, map_levels, canvas,
                 layer_idx, map_idx, placed, saved, error, phases>>

CallValidate ==
  /\ pc = "call"
  /\ mode = "validate_map_compatibility"
  /\ compat' = validate_map_compatibility(map_paths)
  /\ pc' = "return"
  /\ UNCHANGED <<window, args, result, mode, map_paths, level, layers, bounds, map_levels, canvas,
                 layer_idx, map_idx, placed, saved, error, phases>>

CallLevels ==
  /\ pc = "call"
  /\ mode = "_calculate_map_levels"
  /\ map_levels' = _calculate_map_levels(map_paths, level)
  /\ pc' = "return"
  /\ UNCHANGED <<window, args, result, mode, map_paths, level, layers, compat, bounds, canvas,
                 layer_idx, map_idx, placed, saved, error, phases>>

NextCalls ==
  \/ CallBounds
  \/ CallValidate
  \/ CallLevels

SpecCalls == InitCalls /\ [][NextCalls]_vars

\* ------------------------------------------- one function called alone
\* sizes given to build_pyramid and get_max_level, with the documented ones
PyramidArgs ==
  {[width |-> w, height |-> h] : w \in 0..MaxDim, h \in 0..MaxDim}
  \cup {[width |-> 19800, height |-> 15900], [width |-> 300, height |-> 1200]}

\* arguments of calculate_tiles_for_level, with the documented ones
TilesArgs ==
  {[level_width |-> lw, level_height |-> lh, tile_size |-> ts] :
     lw \in Dims, lh \in Dims, ts \in (0 - 1)..MaxDim}
  \cup {[level_width |-> 19800, level_height |-> 15900, tile_size |-> StdCellSize],
        [level_width |-> 310, level_height |-> 249, tile_size |-> StdCellSize],
        [level_width |-> 155, level_height |-> 125, tile_size |-> StdCellSize]}

\* What a level directory may hold: tiles 0_0, 1_0 and 0_1 as .webp, tile
\* 0_0 once more as .png, a .jpg that does not decode, a .webp whose name is
\* not x_y, a text file, and a sub-directory named like a tile.
Files ==
  { Entry(0, 0, "webp", TRUE,  TRUE,  TRUE,  <<1, 1>>, "opaque"),
    Entry(1, 0, "webp", TRUE,  TRUE,  TRUE,  <<1, 1>>, "opaque"),
    Entry(0, 1, "webp", TRUE,  TRUE,  TRUE,  <<1, 1>>, "opaque"),
    Entry(0, 0, "png",  TRUE,  TRUE,  TRUE,  <<1, 1>>, "opaque"),
    Entry(1, 0, "jpg",  TRUE,  TRUE,  FALSE, <<1, 1>>, "opaque"),
    Entry(0, 0, "webp", FALSE, TRUE,  TRUE,  <<1, 1>>, "opaque"),
    Entry(0, 0, "txt",  FALSE, TRUE,  FALSE, <<1, 1>>, "opaque"),
    Entry(1, 1, "webp", TRUE,  FALSE, FALSE, <<1, 1>>, "opaque") }

\* a directory of at most MaxFiles of these files, as a run enumerates it
LoaderArgs ==
  UNION {{[dir_exists |-> TRUE, listing |-> l, tile_format |-> f] :
            l \in Listings(S), f \in {AnyFormat, "png"}} :
          S \in {T \in SUBSET Files : Cardinality(T) <= MaxFiles}}
  \cup {[dir_exists |-> FALSE, listing |-> <<>>, tile_format |-> f] :
          f \in {AnyFormat, "png"}}

\* exports of one map: complete, transparent, undecodable or without tiles
SingleFolders ==
  {[Folder("single", 0, 0, w, h, StdCellSize, IntV(1), IntV(0), "B41", ts)
      EXCEPT !.tiles = t] :
     w \in 1..MaxSingle, h \in 1..MaxSingle, ts \in {2, 3},
     t \in {"full", "clear", "corrupt", "absent"}}
  \cup {[Folder("gone", 0, 0, 2, 2, StdCellSize, IntV(1), IntV(0), "B41", 2)
           EXCEPT !.exists = FALSE]}

\* a level directory of such an export, complete or with one file missing
SingleArgs ==
  UNION {UNION {{[folder |-> f, level |-> l, listing |-> o] : o \in Listings(S)} :
                  S \in {TilesOnDisk(f, l)}
                        \cup {TilesOnDisk(f, l) \ {e} : e \in TilesOnDisk(f, l)}} :
           f \in SingleFolders, l \in Levels}

\* arguments of get_pyramid_info, with the documented ones
PyramidInfoArgs ==
  {[width |-> w, height |-> h, tile_size |-> ts, skip |-> sk] :
     w \in 0..MaxDim, h \in 0..MaxDim, ts \in (0 - 1)..MaxDim,
     sk \in (0 - 1)..(MaxRequested + 1)}
  \cup {[width |-> 19800, height |-> 15900, tile_size |-> StdCellSize, skip |-> 0]}

\* what the tile loop of _stitch_map_onto_canvas works on for one tile of a
\* map that is not clamped: the map's origin, the global minimum (at most
\* the origin), the zoom-out, the tile size and the tile's grid position
PlaceArgs ==
  {[x0 |-> x0, y0 |-> y0, min_x |-> min_x, min_y |-> min_y,
    zoom_out |-> zoom_out, tile_size |-> tile_size, tx |-> tx, ty |-> ty] :
     x0 \in Origins, y0 \in Origins,
     min_x \in Origins, min_y \in Origins,
     zoom_out \in 0..(MaxRequested - 1), tile_size \in 1..(MaxSize + 1),
     tx \in 0..1, ty \in 0..1}

\* descriptors whose fields are integers, texts, null, out of range or absent
InfoArgs ==
  {[Folder("info", 0, 0, 2, 2, StdCellSize, sqr, skip, "B41", 2)
      EXCEPT !.json.w = w, !.json.h = h, !.json.x0 = x0,
             !.json.cell_size = cell_size] :
     w \in {IntV(2), IntV(0), TextV, InfV, AbsentV},
     h \in {IntV(2), IntV(0 - 1), NullV},
     x0 \in {IntV(0), NumTextV(0), AbsentV},
     cell_size \in {IntV(StdCellSize), NumTextV(StdCellSize), NullV},
     sqr \in {AbsentV, IntV(1), IntV(2), NumTextV(2), TextV, NullV},
     skip \in {AbsentV, IntV(0), TextV}}

InitUnits ==
  /\ \/ mode \in {"build_pyramid", "get_max_level"} /\ args \in PyramidArgs
     \/ mode = "read_map_info" /\ args \in InfoArgs
     \/ mode = "get_pyramid_info" /\ args \in PyramidInfoArgs
     \/ mode = "_stitch_map_onto_canvas" /\ args \in PlaceArgs
                                         /\ args.min_x <= args.x0
                                         /\ args.min_y <= args.y0
     \/ mode = "calculate_tiles_for_level" /\ args \in TilesArgs
     \/ mode = "load_tiles_for_level" /\ args \in LoaderArgs
     \/ mode = "stitch_single_map" /\ args \in SingleArgs
  /\ map_paths = <<>>
  /\ level = 0
  /\ layers = 1
  /\ pc = "call"
  /\ Fresh

Returned(r) ==
  /\ result' = r
  /\ pc' = "return"
  /\ UNCHANGED <<window, args, mode, map_paths, level, layers, compat, bounds, map_levels,
                 canvas, layer_idx, map_idx, placed, saved, error, phases>>

CallReadMapInfo ==
  /\ pc = "call"
  /\ mode = "read_map_info"
  /\ Returned(read_map_info(args))

CallPyramidInfo ==
  /\ pc = "call"
  /\ mode = "get_pyramid_info"
  /\ Returned(get_pyramid_info(args.width, args.height, args.tile_size, args.skip))

CallBuildPyramid ==
  /\ pc = "call"
  /\ mode = "build_pyramid"
  /\ Returned(build_pyramid(args.width, args.height))

\* get_max_level raises what build_pyramid raises
CallGetMaxLevel ==
  /\ pc = "call"
  /\ mode = "get_max_level"
  /\ Returned(IF build_pyramid(args.width, args.height).ok
              THEN [ok |-> TRUE, max_level |-> get_max_level(args.width, args.height)]
              ELSE [ok |-> FALSE, max_level |-> 0])

CallTilesForLevel ==
  /\ pc = "call"
  /\ mode = "calculate_tiles_for_level"
  /\ Returned(calculate_tiles_for_level(args.level_width, args.level_height,
                                        args.tile_size))

\* a first run of load_tiles_for_level on the directory
CallLoadTiles ==
  /\ pc = "call"
  /\ mode = "load_tiles_for_level"
  /\ result' = <<load_tiles_for_level(args.dir_exists, args.listing, args.tile_format)>>
  /\ pc' = "again"
  /\ UNCHANGED <<window, args, mode, map_paths, level, layers, compat, bounds, map_levels,
                 canvas, layer_idx, map_idx, placed, saved, error, phases>>

\* a second run on the same directory, which the file system enumerates in
\* an order of its choosing
CallLoadTilesAgain ==
  /\ pc = "again"
  /\ mode = "load_tiles_for_level"
  /\ \E again \in Listings(Range(args.listing)) :
       Returned(Append(result, load_tiles_for_level(args.dir_exists, again,
                                                    args.tile_format)))

\* the tile loop of _stitch_map_onto_canvas on the full-size tiles at
\* (tx, ty), (tx + 1, ty) and (tx, ty + 1) of a map whose level is
\* max_level - zoom_out
CallPlaceTiles ==
  /\ pc = "call"
  /\ mode = "_stitch_map_onto_canvas"
  /\ LET info == [max_level |-> args.zoom_out + 1,
                  actual_level |-> ActualLevel(args.zoom_out + 1, args.zoom_out),
                  tile_size |-> args.tile_size]
         tile(x, y) == [x |-> x, y |-> y, ext |-> "webp",
                        size |-> <<args.tile_size, args.tile_size>>,
                        alpha |-> "opaque"]
         place(x, y) == PlaceTile(tile(x, y), 1, info, 0 - args.x0, 0 - args.y0,
                                  [min_x |-> args.min_x, min_y |-> args.min_y],
                                  ScaleFactor(args.zoom_out),
                                  <<2 * args.tile_size, 2 * args.tile_size>>)
     IN  Returned([here |-> place(args.tx, args.ty),
                   right |-> place(args.tx + 1, args.ty),
                   below |-> place(args.tx, args.ty + 1)])

CallStitchSingle ==
  /\ pc = "call"
  /\ mode = "stitch_single_map"
  /\ Returned(stitch_single_map(args.folder, args.level, args.listing))

NextUnits ==
  \/ CallReadMapInfo
  \/ CallPyramidInfo
  \/ CallPlaceTiles
  \/ CallBuildPyramid
  \/ CallGetMaxLevel
  \/ CallTilesForLevel
  \/ CallLoadTiles
  \/ CallLoadTilesAgain
  \/ CallStitchSingle

SpecUnits == InitUnits /\ [][NextUnits]_vars

\* ------------------------------------------- the GUI's Generate button
\* the Generate button is clicked at most MaxClicks times
MaxClicks == 2

\* the steps of _generate_image_thread that report progress, in order
WorkerSteps == <<"bounds", "levels", "stitch", "save">>

\* the callbacks the worker hands to root.after
UpdateProgress == [callback |-> "update_progress", success |-> FALSE]
GenerationComplete(success) == [callback |-> "_generation_complete", success |-> success]

\* a handler that swallows the exception
OnExceptionSilent(after) == after

\* 'except Exception as e: self.root.after(0, self._generation_complete, False, ...)'
OnException(after) == Append(after, GenerationComplete(FALSE))

\* _check_generate_button_state: the state it gives the Generate button
CanGenerate(valid, is_generating) ==
  IF valid /\ ~is_generating THEN "normal" ELSE "disabled"

InitWindow ==
  /\ mode = "window"
  /\ map_paths = <<>>
  /\ level = 0
  /\ layers = 1
  /\ pc = "mainloop"
  /\ args = <<>>
  /\ Fresh

WindowKeeps ==
  UNCHANGED <<mode, map_paths, level, layers, pc, compat, bounds, map_levels,
              canvas, layer_idx, map_idx, placed, saved, error, phases, args,
              result>>

\* on_maps_discovered, on_map_selection_changed and the other callbacks of
\* the selectors: the selection becomes valid or not, then
\* _check_generate_button_state; the path entry stays bound while a
\* generation runs, and on_maps_discovered enables the output controls
SelectionChanged ==
  /\ mode = "window"
  /\ \E valid \in BOOLEAN :
       /\ valid # window.valid
       /\ window' = [window EXCEPT
                       !.valid = valid,
                       !.generate_button = CanGenerate(valid, window.is_generating)]
  /\ WindowKeeps

\* on_generate_image: the button's command, which Tk runs only while the
\* button is enabled; the user may decline to overwrite an existing file
GenerateClicked ==
  /\ mode = "window"
  /\ window.generate_button = "normal"
  /\ window.clicks < MaxClicks
  /\ \E overwrite_declined \in BOOLEAN :
       IF ~window.valid \/ overwrite_declined
       THEN window' = [window EXCEPT !.clicks = @ + 1]
       ELSE window' = [window EXCEPT
                         !.clicks = @ + 1,
                         !.is_generating = TRUE,
                         !.controls = "disabled",
                         !.generate_button = "disabled",
                         !.workers = Append(@, 1)]
  /\ WindowKeeps

\* a worker thread reports the step it starts: root.after(0, update_progress)
WorkerReports ==
  /\ mode = "window"
  /\ \E t \in 1..Len(window.workers) :
       /\ window.workers[t] \in 1..Len(WorkerSteps)
       /\ window' = [window EXCEPT
                       !.workers[t] = @ + 1,
                       !.after = Append(@, UpdateProgress)]
  /\ WindowKeeps

\* a step of a worker thread raises: the except clause runs
WorkerRaises ==
  /\ mode = "window"
  /\ \E t \in 1..Len(window.workers) :
       /\ window.workers[t] \in 1..(Len(WorkerSteps) + 1)
       /\ window' = [window EXCEPT
                       !.workers[t] = 0,
                       !.after = OnException(@)]
  /\ WindowKeeps

\* the save is done: root.after(0, _generation_complete, True, message)
WorkerSucceeds ==
  /\ mode = "window"
  /\ \E t \in 1..Len(window.workers) :
       /\ window.workers[t] = Len(WorkerSteps) + 1
       /\ window' = [window EXCEPT
                       !.workers[t] = 0,
                       !.after = Append(@, GenerationComplete(TRUE))]
  /\ WindowKeeps

\* the main loop runs the oldest pending callback: update_progress, or
\* _generation_complete, which resets is_generating and enables the controls
MainLoopRuns ==
  /\ mode = "window"
  /\ window.after # <<>>
  /\ IF Head(window.after).callback = "_generation_complete"
     THEN window' = [window EXCEPT
                       !.after = Tail(@),
                       !.is_generating = FALSE,
                       !.controls = "normal",
                       !.generate_button = CanGenerate(window.valid, FALSE),
                       !.completed = @ + 1]
     ELSE window' = [window EXCEPT !.after = Tail(@)]
  /\ WindowKeeps

WorkerRuns == WorkerReports \/ WorkerRaises \/ WorkerSucceeds

NextWindow ==
  \/ SelectionChanged
  \/ GenerateClicked
  \/ WorkerReports
  \/ WorkerRaises
  \/ WorkerSucceeds
  \/ MainLoopRuns

\* a started thread keeps running, and the Tk main loop keeps running the
\* callbacks handed to root.after
SpecWindow ==
  InitWindow /\ [][NextWindow]_vars /\ WF_vars(WorkerRuns) /\ WF_vars(MainLoopRuns)

\* ------------------------------------ build_pyramid, one iteration a step
\* the sides of the images the loop is run on
MaxSide == 9

\* a halving that rounds down
HalveFloor(n) == n \div 2

\* 'w = (w + 1) // 2'
HalveUp(n) == (n + 1) \div 2

\* build_pyramid(width, height) is called; result holds the list 'pyramid'
InitLoop ==
  /\ mode = "build_pyramid"
  /\ args \in [width : 0..MaxSide, height : 0..MaxSide]
  /\ map_paths = <<>>
  /\ level = 0
  /\ layers = 1
  /\ pc = "call"
  /\ Fresh

LoopKeeps ==
  UNCHANGED <<window, args, mode, map_paths, level, layers, compat, bounds, map_levels,
              canvas, layer_idx, map_idx, placed, saved, error, phases>>

\* the check of the arguments and 'pyramid = [(width, height)]'
EnterPyramid ==
  /\ pc = "call"
  /\ IF args.width <= 0 \/ args.height <= 0
     THEN /\ result' = [ok |-> FALSE, levels |-> <<>>]
          /\ pc' = "return"
     ELSE /\ result' = [ok |-> TRUE, levels |-> << <<args.width, args.height>> >>]
          /\ pc' = "while"
  /\ LoopKeeps

\* one iteration of 'while pyramid[-1] != (1, 1)'
HalveStep ==
  /\ pc = "while"
  /\ result.levels[Len(result.levels)] # <<1, 1>>
  /\ LET last == result.levels[Len(result.levels)]
     IN  result' = [result EXCEPT
                      !.levels = Append(@, <<HalveUp(last[1]), HalveUp(last[2])>>)]
  /\ pc' = pc
  /\ LoopKeeps

\* the loop ends; 'pyramid.reverse()' and 'return pyramid'
LeaveLoop ==
  /\ pc = "while"
  /\ result.levels[Len(result.levels)] = <<1, 1>>
  /\ result' = [result EXCEPT !.levels = Reverse(@)]
  /\ pc' = "return"
  /\ LoopKeeps

NextLoop ==
  \/ EnterPyramid
  \/ HalveStep
  \/ LeaveLoop

\* the interpreter keeps running the call: a step that can be taken is taken
SpecLoop == InitLoop /\ [][NextLoop]_vars /\ WF_vars(NextLoop)

\* ============================================================ properties
MapMaxLevel(folder) == get_max_level(folder.dzi.width, folder.dzi.height)
HighestMax(map_list) ==
  CHOOSE m \in {MapMaxLevel(map_list[i]) : i \in 1..Len(map_list)} :
    \A i \in 1..Len(map_list) : MapMaxLevel(map_list[i]) <= m
LevelsReturned == mode = "_calculate_map_levels" /\ pc = "return"
BoundsReturned == mode = "calculate_global_bounds" /\ pc = "return"

\* C1: for a non-empty list of maps and a requested level <= highestMax,
\* _calculate_map_levels returns highestMax = the largest map max level,
\* zoomOut = highestMax - requested, scaleFactor = 2^(-zoomOut) and per map
\* actualLevel = max(0, mapMaxLevel - zoomOut); max levels 15 and 11 at
\* requested 15 give zoomOut 0, actual levels 15 and 11, scaleFactor 1.
C1_LevelResolution ==
  (LevelsReturned /\ level <= HighestMax(map_paths)) =>
    LET zo == HighestMax(map_paths) - level
    IN  /\ map_levels.ok
        /\ map_levels.highest_max = HighestMax(map_paths)
        /\ map_levels.zoom_out = zo
        /\ map_levels.scale_factor.num * Pow2(zo) = map_levels.scale_factor.den
        /\ Len(map_levels.map_info) = Len(map_paths)
        /\ \A i \in 1..Len(map_paths) :
             map_levels.map_info[i].actual_level =
               IF MapMaxLevel(map_paths[i]) >= zo THEN MapMaxLevel(map_paths[i]) - zo
               ELSE 0
        /\ (map_paths = <<ExampleBase, ExampleMod>> /\ level = 15) =>
             /\ map_levels.zoom_out = 0
             /\ map_levels.map_info[1].actual_level = 15
             /\ map_levels.map_info[2].actual_level = 11
             /\ map_levels.scale_factor.num = map_levels.scale_factor.den

\* a resolution that zooms out and clamps one map at level 0 while another
\* map stays above it
C1_Witness ==
  /\ LevelsReturned
  /\ map_levels.ok
  /\ map_levels.zoom_out > 0
  /\ \E i, j \in 1..Len(map_paths) :
       /\ MapMaxLevel(map_paths[i]) < map_levels.zoom_out
       /\ map_levels.map_info[i].actual_level = 0
       /\ map_levels.map_info[j].actual_level > 0

\* C3: calculate_global_bounds on a non-empty list returns min_x = min(x0),
\* min_y = min(y0), max_x = max(x0+w), max_y = max(y0+h), width and height
\* their differences, and per map, in the caller's order, the offset
\* (x0 - min_x, y0 - min_y); the documented example gives -100,-100,100,100,
\* 200x200 and offsets (0,0), (100,100).
C3_GlobalBounds ==
  BoundsReturned =>
    LET N == 1..Len(map_paths)
        X0(i) == map_paths[i].json.x0.v
        Y0(i) == map_paths[i].json.y0.v
        W(i) == map_paths[i].json.w.v
        H(i) == map_paths[i].json.h.v
    IN  /\ bounds.ok
        /\ \A i \in N : bounds.min_x <= X0(i) /\ bounds.min_y <= Y0(i)
        /\ \E i \in N : bounds.min_x = X0(i)
        /\ \E i \in N : bounds.min_y = Y0(i)
        /\ \A i \in N : bounds.max_x >= X0(i) + W(i) /\ bounds.max_y >= Y0(i) + H(i)
        /\ \E i \in N : bounds.max_x = X0(i) + W(i)
        /\ \E i \in N : bounds.max_y = Y0(i) + H(i)
        /\ bounds.width = bounds.max_x - bounds.min_x
        /\ bounds.height = bounds.max_y - bounds.min_y
        /\ Len(bounds.maps) = Len(map_paths)
        /\ \A i \in N :
             /\ bounds.maps[i].name = map_paths[i].name
             /\ bounds.maps[i].x0 = X0(i) /\ bounds.maps[i].y0 = Y0(i)
             /\ bounds.maps[i].w = W(i) /\ bounds.maps[i].h = H(i)
             /\ bounds.maps[i].offset_x = X0(i) - bounds.min_x
             /\ bounds.maps[i].offset_y = Y0(i) - bounds.min_y
        /\ map_paths = <<ExampleA, ExampleB>> =>
             /\ <<bounds.min_x, bounds.min_y, bounds.max_x, bounds.max_y>>
                  = <<-100, -100, 100, 100>>
             /\ <<bounds.width, bounds.height>> = <<200, 200>>
             /\ <<bounds.maps[1].offset_x, bounds.maps[1].offset_y>> = <<0, 0>>
             /\ <<bounds.maps[2].offset_x, bounds.maps[2].offset_y>> = <<100, 100>>

\* the bounds of the documented example have been computed
C3_Witness ==
  /\ BoundsReturned
  /\ map_paths = <<ExampleA, ExampleB>>
  /\ bounds.ok
  /\ bounds.maps[2].offset_x = 100

\* C4: for maps with w > 0 and h > 0 and any integer origins, every map's
\* placement rectangle [offset_x, offset_x + w] x [offset_y, offset_y + h]
\* lies within [0, width] x [0, height], every offset is >= 0 and width and
\* height are >= 1.
C4_PlacementInsideCanvas ==
  BoundsReturned =>
    /\ bounds.width >= 1
    /\ bounds.height >= 1
    /\ \A i \in 1..Len(map_paths) :
         LET off == get_map_offset(read_map_info(map_paths[i]), bounds)
         IN  /\ off = <<bounds.maps[i].offset_x, bounds.maps[i].offset_y>>
             /\ off[1] >= 0 /\ off[2] >= 0
             /\ off[1] + bounds.maps[i].w <= bounds.width
             /\ off[2] + bounds.maps[i].h <= bounds.height

\* bounds of two maps with origins of opposite sign, one of them placed
\* away from the canvas origin and ending before the far edge
C4_Witness ==
  /\ BoundsReturned
  /\ bounds.ok
  /\ \E i, j \in 1..Len(map_paths) :
       /\ bounds.maps[i].x0 < 0 /\ bounds.maps[j].x0 > 0
       /\ bounds.maps[j].offset_x > 0
       /\ bounds.maps[i].offset_x + bounds.maps[i].w < bounds.width

\* C2: a requested level above the highest max level of all maps makes the
\* level resolution fail with LevelOutOfRange, and in stitch_multi_map that
\* happens before the canvas is allocated and before any file is written.
C2_LevelOutOfRange ==
  (Len(map_paths) > 0 /\ level > HighestMax(map_paths)) =>
    /\ pc \notin {"AllocateCanvas", "CompositeMap", "Save", "Done"}
    /\ ~canvas.allocated
    /\ placed = <<>>
    /\ saved = 0
    /\ (\E k \in 1..Len(phases) : phases[k] = "ResolveLevels") =>
         /\ pc = "Failed"
         /\ error = "LevelOutOfRange"
         /\ ~map_levels.ok

\* stitch_multi_map has validated the maps, computed the bounds and then
\* failed in the level resolution
C2_Witness ==
  /\ mode = "stitch_multi_map"
  /\ phases = <<"Validate", "ComputeBounds", "ResolveLevels">>
  /\ pc = "Failed"
  /\ error = "LevelOutOfRange"

\* C5: for maps with negative, zero or positive origins and tiles with
\* non-negative grid coordinates, tileFull - globalMin is >= 0 on both axes,
\* so every composited tile has canvasX >= 0 and canvasY >= 0.
C5_NonNegativeFrame ==
  \A k \in 1..Len(placed) :
    /\ placed[k].rel_x >= 0 /\ placed[k].rel_y >= 0
    /\ placed[k].canvas_x >= 0 /\ placed[k].canvas_y >= 0

\* C6: in stitch_multi_map at zoomOut = 0 the tile at grid (0,0) of every
\* map is composited at the map's placement offset (x0 - min_x, y0 - min_y)
\* reported by calculate_global_bounds.
C6_CompositorFollowsBounds ==
  (mode = "stitch_multi_map" /\ map_levels.ok /\ map_levels.zoom_out = 0) =>
    \A k \in 1..Len(placed) :
      (placed[k].x = 0 /\ placed[k].y = 0) =>
        /\ placed[k].canvas_x = bounds.maps[placed[k].map].offset_x
        /\ placed[k].canvas_y = bounds.maps[placed[k].map].offset_y

AllReadable(map_list) == \A i \in 1..Len(map_list) : read_map_info(map_list[i]).ok
OneSqr(map_list) ==
  \A i, j \in 1..Len(map_list) :
    read_map_info(map_list[i]).sqr = read_map_info(map_list[j]).sqr
OneCellSize(map_list) ==
  \A i, j \in 1..Len(map_list) :
    read_map_info(map_list[i]).cell_size = read_map_info(map_list[j]).cell_size

\* C7: validate_map_compatibility on a non-empty list of readable maps
\* raises nothing and returns compatible = true exactly when all maps share
\* one sqr and one cell_size; a mismatch gives a non-empty errors list, and
\* versions only add warnings.
C7_CompatibilityVerdict ==
  (mode = "validate_map_compatibility" /\ pc = "return" /\ AllReadable(map_paths)) =>
    /\ compat.raised = ""
    /\ compat.compatible <=> (OneSqr(map_paths) /\ OneCellSize(map_paths))
    /\ ~compat.compatible => Len(compat.errors) > 0

\* C8: on every path that composites several maps onto one canvas, maps
\* whose sqr or cell_size differ stop the run before a canvas is allocated,
\* a tile is composited or a file is written.
C8_RefuseIncompatible ==
  (AllReadable(map_paths) /\ ~(OneSqr(map_paths) /\ OneCellSize(map_paths))) =>
    /\ ~canvas.allocated
    /\ placed = <<>>
    /\ saved = 0

\* C9: a descriptor with valid required fields that lacks any of sqr, skip
\* and version is read with sqr = 1 and skip = 0, and neither read_map_info
\* nor validate_map_compatibility nor stitch_multi_map fails for the lack.
C9_OptionalFieldsNotFatal ==
  (\A i \in 1..Len(map_paths) : map_paths[i].exists) =>
  /\ \A i \in 1..Len(map_paths) :
       LET info == read_map_info(map_paths[i])
       IN  /\ info.ok
           /\ map_paths[i].json.sqr.k = "absent" => info.sqr = 1
           /\ map_paths[i].json.skip.k = "absent" => info.skip = 0
  /\ compat.raised \in {"", "unset"}
  /\ error \notin {"KeyError", "MissingFields", "NonNumericField", "NotFound"}

PhaseOrder(n) ==
  <<"Validate", "ComputeBounds", "ResolveLevels", "AllocateCanvas">>
  \o [i \in 1..n |-> "CompositeMap"] \o <<"Save">>

\* C10: stitch_multi_map runs Validate, ComputeBounds, ResolveLevels,
\* AllocateCanvas, CompositeMap once per map, Save, in this order; a failure
\* in one of the first three leaves no canvas and no output file; Save runs
\* at most once and only after the composite step of every map.
C10_PhaseOrder ==
  mode = "stitch_multi_map" =>
    LET full == PhaseOrder(Len(map_paths))
    IN  /\ Len(phases) <= Len(full)
        /\ phases = SubSeq(full, 1, Len(phases))
        /\ canvas.allocated <=> Len(phases) >= 4
        /\ (pc = "Failed" /\ Len(phases) <= 3) =>
             (~canvas.allocated /\ placed = <<>> /\ saved = 0)
        /\ saved <= 1
        /\ saved = 1 => phases = full
        /\ placed # <<>> => canvas.allocated

\* a run over two maps that composited both and saved the image
C10_Witness ==
  /\ mode = "stitch_multi_map"
  /\ Len(map_paths) = 2
  /\ pc = "Done"
  /\ saved = 1
  /\ \E k \in 1..Len(placed) : placed[k].map = 2

\* ------------------------------------------------ order of the composites
\* the alpha_composite calls map m contributes to a run
StepsOf(m) ==
  LET entries == TilesOnDisk(map_paths[m], map_levels.map_info[m].actual_level)
  IN  Pasted(_stitch_map_onto_canvas(canvas.size, map_paths, m, map_levels,
                                     bounds, map_levels.scale_factor,
                                     CHOOSE listing \in Listings(entries) : TRUE).steps)

RECURSIVE StepsUpTo(_)
StepsUpTo(n) == IF n = 0 THEN <<>> ELSE StepsUpTo(n - 1) \o StepsOf(n)

\* C11: in a stitch_multi_map run the maps are composited one after the
\* other in the order of the caller's list: when map N is about to be
\* stitched the composites made so far are exactly those of maps 1 .. N-1,
\* map by map, and at the end those of all maps; composites of different
\* maps never interleave.
C11_MapsInListOrder ==
  mode = "stitch_multi_map" =>
    /\ \A k, l \in 1..Len(placed) : k < l => placed[k].map <= placed[l].map
    /\ pc = "CompositeMap" => placed = StepsUpTo(map_idx - 1)
    /\ pc \in {"Save", "Done"} => placed = StepsUpTo(Len(map_paths))

\* a finished run that composited tiles of two maps
C11_Witness ==
  /\ mode = "stitch_multi_map"
  /\ pc = "Done"
  /\ \E k, l \in 1..Len(placed) : placed[k].map = 1 /\ placed[l].map = 2

\* ------------------------------------------------- which map shows through
\* the composites of map m that put an opaque tile pixel on canvas pixel p
CoveringSteps(m, p) ==
  {k \in 1..Len(placed) :
     /\ placed[k].map = m
     /\ placed[k].alpha = "opaque"
     /\ p[1] >= placed[k].canvas_x /\ p[1] < placed[k].canvas_x + placed[k].size[1]
     /\ p[2] >= placed[k].canvas_y /\ p[2] < placed[k].canvas_y + placed[k].size[2]}

\* the pixel a composite puts on canvas pixel p
PixelFrom(k, p) ==
  ImagePixel(placed[k], p[1] - placed[k].canvas_x, p[2] - placed[k].canvas_y)

\* C12: when a stitch_multi_map run has composited all maps, a canvas pixel
\* covered by opaque tile pixels of the maps at list positions i < j never
\* shows map i, and shows a pixel of map j unless a map after j covers it
\* too; as this holds for every list, a list with the two maps swapped
\* shows the other map.
C12_LaterMapOnTop ==
  (mode = "stitch_multi_map" /\ pc \in {"Save", "Done"}) =>
    \A p \in DOMAIN canvas.pixels : \A i, j \in 1..Len(map_paths) :
      (i < j /\ CoveringSteps(i, p) # {} /\ CoveringSteps(j, p) # {}) =>
        /\ canvas.pixels[p].map # i
        /\ (\A n \in (j + 1)..Len(map_paths) : CoveringSteps(n, p) = {}) =>
             \E k \in CoveringSteps(j, p) : canvas.pixels[p] = PixelFrom(k, p)

\* a finished run with a canvas pixel under tiles of both of its maps
C12_Witness ==
  /\ mode = "stitch_multi_map"
  /\ pc = "Done"
  /\ Len(map_paths) = 2
  /\ \E p \in DOMAIN canvas.pixels :
       /\ CoveringSteps(1, p) # {}
       /\ CoveringSteps(2, p) # {}
       /\ canvas.pixels[p].map = 2

\* --------------------------------------------------- maps without tiles
\* map m has no level directory, or no file in it loads
NoLoadableTile(m) ==
  LET lvl == map_levels.map_info[m].actual_level
      entries == TilesOnDisk(map_paths[m], lvl)
  IN  load_tiles_for_level(LevelExists(map_paths[m], lvl),
                           CHOOSE listing \in Listings(entries) : TRUE,
                           AnyFormat).tiles = <<>>

\* C13: in a stitch_multi_map run, stitching a map whose level directory is
\* absent or holds no loadable tile changes neither the canvas nor the
\* list of composites and raises nothing: the run goes on to the next map,
\* or to saving after the last one; a run that reaches its end has
\* composited the tiles of all other maps and written one output file.
C13_EmptyMapSkipped ==
  /\ [][(mode = "stitch_multi_map" /\ pc = "CompositeMap" /\ NoLoadableTile(map_idx)) =>
          /\ canvas' = canvas
          /\ placed' = placed
          /\ error' = error
          /\ IF map_idx < Len(map_paths)
             THEN pc' = "CompositeMap" /\ map_idx' = map_idx + 1
             ELSE pc' = "Save"]_vars
  /\ []((mode = "stitch_multi_map" /\ pc = "Done") =>
          /\ saved = 1
          /\ \A m \in 1..Len(map_paths) :
               SelectSeq(placed, LAMBDA s : s.map = m) = StepsOf(m))

\* a finished run in which a map without loadable tiles comes before a map
\* whose tiles are on the canvas
C13_Witness ==
  /\ mode = "stitch_multi_map"
  /\ pc = "Done"
  /\ saved = 1
  /\ \E i, j \in 1..Len(map_paths) :
       /\ i < j
       /\ NoLoadableTile(i)
       /\ \E k \in 1..Len(placed) : placed[k].map = j

\* a finished run with a map whose level directory has only undecodable files
C13_WitnessCorrupt ==
  /\ mode = "stitch_multi_map"
  /\ pc = "Done"
  /\ \E i \in 1..Len(map_paths) : map_paths[i].tiles = "corrupt"
  /\ placed # <<>>

\* ------------------------------------------------------- the canvas size
\* C14: once the canvas is allocated its size is round(width * scaleFactor)
\* by round(height * scaleFactor) of the global bounds.
C14_CanvasSizeRounded ==
  canvas.allocated => canvas.size = CanvasSizeRounded(bounds, map_levels.scale_factor)

\* ------------------------------------------------------------ the pyramid
\* C15: for positive w and h, build_pyramid(w, h) starts with (1, 1), ends
\* with (w, h), each level is the next one halved and rounded up on both
\* axes, widths and heights never decrease with the level index, and (1, 1)
\* is at index 0 only.
C15_PyramidShape ==
  (mode = "build_pyramid" /\ pc = "return" /\ args.width >= 1 /\ args.height >= 1) =>
    LET levels == result.levels
        n == Len(levels)
    IN  /\ result.ok
        /\ n >= 1
        /\ levels[1] = <<1, 1>>
        /\ levels[n] = <<args.width, args.height>>
        /\ \A i \in 1..(n - 1) : \A axis \in {1, 2} :
             /\ 2 * levels[i][axis] >= levels[i + 1][axis]
             /\ 2 * (levels[i][axis] - 1) < levels[i + 1][axis]
             /\ levels[i][axis] <= levels[i + 1][axis]
        /\ \A i \in 2..n : levels[i] # <<1, 1>>

\* a pyramid of several levels whose sides are not powers of two
C15_Witness ==
  /\ mode = "build_pyramid"
  /\ pc = "return"
  /\ args.width = 3
  /\ args.height = 4
  /\ result.ok
  /\ result.levels = << <<1, 1>>, <<2, 2>>, <<3, 4>> >>

\* C16: for positive w and h, get_max_level(w, h) is the number of pyramid
\* levels less one and is the least k >= 0 with 2^k >= max(w, h), hence the
\* same for any two sizes with the same larger side; it is 15 for
\* 19800x15900, 11 for 300x1200 and 0 for 1x1.
C16_MaxLevel ==
  (mode = "get_max_level" /\ pc = "return" /\ args.width >= 1 /\ args.height >= 1) =>
    LET larger == MaxOf(args.width, args.height)
        k == result.max_level
    IN  /\ result.ok
        /\ k = Len(build_pyramid(args.width, args.height).levels) - 1
        /\ k >= 0
        /\ Pow2(k) >= larger
        /\ k > 0 => Pow2(k - 1) < larger
        /\ (args.width = 19800 /\ args.height = 15900) => k = 15
        /\ (args.width = 300 /\ args.height = 1200) => k = 11
        /\ (args.width = 1 /\ args.height = 1) => k = 0

\* the documented 300x1200 layer, whose larger side is its height
C16_Witness ==
  /\ mode = "get_max_level"
  /\ pc = "return"
  /\ args.width = 300
  /\ args.height = 1200
  /\ result.ok
  /\ result.max_level = 11

\* -------------------------------------------------------- the tile grid
\* C17: for positive level sizes, calculate_tiles_for_level fails exactly
\* when tile_size <= 0, and otherwise returns the least cols >= 1 and
\* rows >= 1 with (cols-1)*tile_size < level_width <= cols*tile_size and
\* (rows-1)*tile_size < level_height <= rows*tile_size: (66, 53) for
\* 19800x15900, (2, 1) for 310x249 and (1, 1) for 155x125 with tiles of 300.
C17_TileGrid ==
  (mode = "calculate_tiles_for_level" /\ pc = "return") =>
    /\ ~result.ok <=> args.tile_size <= 0
    /\ result.ok =>
         /\ result.cols >= 1
         /\ result.rows >= 1
         /\ (result.cols - 1) * args.tile_size < args.level_width
         /\ args.level_width <= result.cols * args.tile_size
         /\ (result.rows - 1) * args.tile_size < args.level_height
         /\ args.level_height <= result.rows * args.tile_size
    /\ args.tile_size = StdCellSize =>
         /\ (args.level_width = 19800 /\ args.level_height = 15900) =>
              (result.cols = 66 /\ result.rows = 53)
         /\ (args.level_width = 310 /\ args.level_height = 249) =>
              (result.cols = 2 /\ result.rows = 1)
         /\ (args.level_width = 155 /\ args.level_height = 125) =>
              (result.cols = 1 /\ result.rows = 1)

\* a level that needs a narrower last column of tiles
C17_Witness ==
  /\ mode = "calculate_tiles_for_level"
  /\ pc = "return"
  /\ args.level_width = 3
  /\ args.level_height = 2
  /\ args.tile_size = 2
  /\ result.ok
  /\ result.cols = 2
  /\ result.rows = 1

\* a call that fails for its tile size
C17_WitnessInvalid ==
  /\ mode = "calculate_tiles_for_level"
  /\ pc = "return"
  /\ args.tile_size = 0
  /\ ~result.ok

\* ------------------------------------------------- one map stitched alone
\* the documented 600x600 map with tiles of 300
Square600 == Folder("square", 0, 0, 600, 600, StdCellSize, IntV(1), IntV(0), "B41", 300)

\* the level directory given to the call holds exactly the tiles of the
\* level's grid from (0, 0), each a decodable image
FullyCovered ==
  /\ args.folder.exists
  /\ args.folder.tiles \in {"full", "clear"}
  /\ Range(args.listing) = TilesOnDisk(args.folder, args.level)
  /\ args.listing # <<>>

\* the tile pixel that lies at pixel p of the level
SourcePixel(p) ==
  LET ts == args.folder.dzi.tile_size
      e == CHOOSE t \in Range(args.listing) : t.x = p[1] \div ts /\ t.y = p[2] \div ts
  IN  ImagePixel([map |-> 1, x |-> e.x, y |-> e.y, ext |-> e.ext, alpha |-> e.alpha],
                 p[1] % ts, p[2] % ts)

\* the size of pyramid level L, 600x600 for the documented map
SizeOfLevel ==
  /\ result.ok
  /\ result.size = build_pyramid(args.folder.dzi.width,
                                 args.folder.dzi.height).levels[args.level + 1]
  /\ DOMAIN result.pixels = (0..(result.size[1] - 1)) \X (0..(result.size[2] - 1))
  /\ LET top == get_max_level(600, 600)
         listing == CHOOSE l \in Listings(TilesOnDisk(Square600, top)) : TRUE
     IN  OutputSize(load_tiles_for_level(TRUE, listing, AnyFormat).tiles,
                    StdCellSize) = <<600, 600>>

\* C18 as stated: stitch_single_map at level L of a map whose level
\* directory holds the full tile grid from (0, 0) returns an image of the
\* size of pyramid level L whose every pixel (x, y) equals pixel
\* (x mod tile_size, y mod tile_size) of tile (x div tile_size, y div tile_size).
C18_EveryPixelEqual ==
  (mode = "stitch_single_map" /\ pc = "return" /\ FullyCovered) =>
    /\ SizeOfLevel
    /\ \A p \in DOMAIN result.pixels : result.pixels[p] = SourcePixel(p)

\* C18, amended: the image has the size of pyramid level L (600x600 for the
\* 600x600 map with tiles of 300 at its highest level); a pixel whose source
\* tile pixel has alpha above 0 equals that tile pixel, and a pixel whose
\* source tile pixel has alpha 0 is the transparent (0, 0, 0, 0) of the new
\* image, whatever colour the tile pixel carries.
C18_SingleMapRoundTrip ==
  (mode = "stitch_single_map" /\ pc = "return" /\ FullyCovered) =>
    /\ SizeOfLevel
    /\ \A p \in DOMAIN result.pixels :
         result.pixels[p] = IF SourcePixel(p).a = 0 THEN Transparent
                            ELSE SourcePixel(p)

\* a 3x3 map stitched at its highest level from its four tiles of 2
C18_Witness ==
  /\ mode = "stitch_single_map"
  /\ pc = "return"
  /\ FullyCovered
  /\ args.folder.tiles = "full"
  /\ args.folder.dzi = [width |-> 3, height |-> 3, tile_size |-> 2]
  /\ args.level = 2
  /\ Len(args.listing) = 4
  /\ result.ok
  /\ result.size = <<3, 3>>
  /\ result.pixels[<<2, 2>>].x = 1
  /\ result.pixels[<<2, 2>>].y = 1

\* a map of fully transparent tiles stitched alone
C18_WitnessClear ==
  /\ mode = "stitch_single_map"
  /\ pc = "return"
  /\ FullyCovered
  /\ args.folder.tiles = "clear"
  /\ result.ok
  /\ result.size = <<3, 3>>
  /\ result.pixels[<<2, 2>>] = Transparent

\* ------------------------------------------------- the loader on its own
\* C19: two runs of load_tiles_for_level on the same directory return the
\* same tiles in the same order, whatever the files in the directory and
\* in whatever order each run's enumeration yields them.
C19_SameOrderEveryRun ==
  (mode = "load_tiles_for_level" /\ pc = "return") => result[1] = result[2]

\* the format filter a call applies, and the files it has to return
Wanted ==
  LET accepted == IF args.tile_format = AnyFormat
                  THEN {"webp", "png", "jpg", "jpeg"}
                  ELSE {args.tile_format}
  IN  {e \in Range(args.listing) :
         e.is_file /\ e.ext \in accepted /\ e.name_ok /\ e.decodes}

\* C20: load_tiles_for_level raises nothing whatever files the directory
\* holds: files whose name is not x_y or whose image does not decode are
\* left out, every other file with an accepted extension is in the result
\* exactly once and nothing else is, and an absent directory gives the
\* empty list.
C20_BadFilesSkipped ==
  (mode = "load_tiles_for_level" /\ pc \in {"again", "return"}) =>
    LET r == result[1]
    IN  /\ r.raised = ""
        /\ ~args.dir_exists => r.tiles = <<>>
        /\ Len(r.tiles) = Cardinality(Wanted)
        /\ \A e \in Wanted :
             Cardinality({k \in 1..Len(r.tiles) :
                            /\ r.tiles[k].x = e.x
                            /\ r.tiles[k].y = e.y
                            /\ r.tiles[k].ext = e.ext}) = 1

\* a directory with a misnamed, an undecodable and a good tile file
C20_Witness ==
  /\ mode = "load_tiles_for_level"
  /\ pc = "return"
  /\ args.tile_format = AnyFormat
  /\ \E e \in Range(args.listing) : e.is_file /\ e.ext = "webp" /\ ~e.name_ok
  /\ \E e \in Range(args.listing) : e.is_file /\ e.ext = "jpg" /\ ~e.decodes
  /\ Len(result[1].tiles) = 1
  /\ result[1].raised = ""

\* a level directory that is not there
C20_WitnessAbsent ==
  /\ mode = "load_tiles_for_level"
  /\ pc = "return"
  /\ ~args.dir_exists
  /\ result[1] = [raised |-> "", tiles |-> <<>>]

\* -------------------------------------------------- read_map_info alone
\* the fields of the descriptor given to the call that int() cannot coerce
Uncoercible ==
  {f \in {"w", "h", "x0", "y0", "cell_size", "skip", "sqr"} :
     args.json[f].k \in {"text", "null", "inf"}}

\* C21: read_map_info on an existing descriptor either succeeds with seven
\* integer fields or raises one of its declared errors: MissingFields when
\* a required field is absent, otherwise NonNumericField when any of the
\* seven fields cannot be coerced to an integer, otherwise
\* InvalidDimensions when w <= 0 or h <= 0.
C21_DeclaredErrorsOnly ==
  (mode = "read_map_info" /\ pc = "return") =>
    LET absent == {f \in {"w", "h", "x0", "y0", "cell_size"} :
                     args.json[f].k = "absent"}
    IN  IF absent # {} THEN ~result.ok /\ result.err = "MissingFields"
        ELSE IF Uncoercible # {} THEN ~result.ok /\ result.err = "NonNumericField"
        ELSE IF args.json.w.v <= 0 \/ args.json.h.v <= 0
        THEN ~result.ok /\ result.err = "InvalidDimensions"
        ELSE result.ok

\* ------------------------------------------------ get_pyramid_info alone
\* C22: get_pyramid_info fails whenever width <= 0, height <= 0,
\* tile_size <= 0, skip < 0 or skip >= the number of pyramid levels; for
\* every other input it returns tiles_per_level for exactly the levels
\* skip .. num_levels-1, each entry the calculate_tiles_for_level of that
\* level's size, and total_tiles the sum of cols*rows over those levels.
\* For 19800x15900 with tiles of 300, level 15 has (66, 53) tiles.
C22_PyramidInfo ==
  (mode = "get_pyramid_info" /\ pc = "return") =>
    LET sized == args.width >= 1 /\ args.height >= 1
        pyramid == build_pyramid(args.width, args.height).levels
        valid == /\ sized
                 /\ args.tile_size >= 1
                 /\ args.skip >= 0
                 /\ args.skip < Len(pyramid)
        grid(l) == calculate_tiles_for_level(pyramid[l + 1][1], pyramid[l + 1][2],
                                             args.tile_size)
        levels == args.skip..(Len(pyramid) - 1)
    IN  /\ result.ok <=> valid
        /\ valid =>
             /\ DOMAIN result.tiles_per_level = levels
             /\ \A l \in levels :
                  result.tiles_per_level[l] = <<grid(l).cols, grid(l).rows>>
             /\ result.total_tiles =
                  TotalTiles([l \in levels |-> grid(l)], levels)
             /\ result.total_tiles >= Cardinality(levels)
             /\ (args.width = 19800 /\ args.height = 15900) =>
                  result.tiles_per_level[15] = <<66, 53>>

\* a 4x3 image with tiles of 2 and its lowest level skipped: levels 1 and 2
\* with 1 and 4 tiles
C22_Witness ==
  /\ mode = "get_pyramid_info"
  /\ pc = "return"
  /\ args = [width |-> 4, height |-> 3, tile_size |-> 2, skip |-> 1]
  /\ result.ok
  /\ DOMAIN result.tiles_per_level = {1, 2}
  /\ result.total_tiles = 5

\* a call that fails because it skips every level
C22_WitnessSkip ==
  /\ mode = "get_pyramid_info"
  /\ pc = "return"
  /\ args = [width |-> 4, height |-> 3, tile_size |-> 2, skip |-> 3]
  /\ ~result.ok

\* ------------------------------------------------------ off-canvas tiles
\* one enumeration of a directory's entries
RECURSIVE OneListing(_)
OneListing(entries) ==
  IF entries = {} THEN <<>>
  ELSE LET e == CHOOSE x \in entries : TRUE
       IN  <<e>> \o OneListing(entries \ {e})

\* every tile map m loads in a run, placed, pasted or not
LoadedStepsOf(m) ==
  LET entries == TilesOnDisk(map_paths[m], map_levels.map_info[m].actual_level)
  IN  _stitch_map_onto_canvas(canvas.size, map_paths, m, map_levels, bounds,
                              map_levels.scale_factor, OneListing(entries)).steps

\* the image of step s, put at (canvas_x, canvas_y), shares a pixel with
\* the canvas [0, W) x [0, H)
Overlaps(s, canvas_size) ==
  /\ MaxOf(s.canvas_x, 0) < MinOf(s.canvas_x + s.size[1], canvas_size[1])
  /\ MaxOf(s.canvas_y, 0) < MinOf(s.canvas_y + s.size[2], canvas_size[2])

RECURSIVE OverlappingUpTo(_)
OverlappingUpTo(n) ==
  IF n = 0 THEN <<>>
  ELSE OverlappingUpTo(n - 1)
         \o SelectSeq(LoadedStepsOf(n), LAMBDA s : Overlaps(s, canvas.size))

\* the canvas has just been allocated: the maps' tiles are about to be placed
CanvasReady == canvas.allocated /\ pc = "CompositeMap" /\ layer_idx = 1 /\ map_idx = 1

\* C23: in _stitch_map_onto_canvas a tile is handed to alpha_composite if
\* and only if the rectangle [canvasX, canvasX+w) x [canvasY, canvasY+h) of
\* its image (w x h the size of the image tested and composited) shares at least one pixel with the canvas [0, W) x [0, H); the
\* other tiles are skipped without an error and leave the canvas as it was:
\* a run that reaches its save has composited exactly the overlapping tiles.
C23_OffCanvasSkipped ==
  /\ CanvasReady =>
       \A m \in 1..Len(map_paths) :
         LET steps == LoadedStepsOf(m)
         IN  \A k \in 1..Len(steps) :
               steps[k].pasted <=> Overlaps(steps[k], canvas.size)
  /\ pc = "Save" =>
       /\ layers = 1 => placed = OverlappingUpTo(Len(map_paths))
       /\ \A k \in 1..Len(placed) : Overlaps(placed[k], canvas.size)

\* a finished run in which one map's tile was skipped for lying off the
\* canvas and another tile was composited
C23_Witness ==
  /\ pc = "Done"
  /\ placed # <<>>
  /\ \E m \in 1..Len(map_paths) :
       \E k \in 1..Len(LoadedStepsOf(m)) :
         /\ ~LoadedStepsOf(m)[k].pasted
         /\ ~Overlaps(LoadedStepsOf(m)[k], canvas.size)

\* a composited tile that lies only partly on the canvas
C23_WitnessPartial ==
  /\ pc = "Done"
  /\ \E k \in 1..Len(placed) :
       /\ Overlaps(placed[k], canvas.size)
       /\ ~_is_wholly_within_canvas(placed[k].canvas_x, placed[k].canvas_y,
                                    placed[k].size, canvas.size)

\* ------------------------------------------------- size of a pasted image
\* C24: every tile image handed to alpha_composite has exactly the target
\* size (canvasW, canvasH) = (round(tileW * levelScaleUp * scaleFactor),
\* round(tileH * levelScaleUp * scaleFactor)), and a tile is resampled if
\* and only if its natural size differs from that target.
C24_TargetSize ==
  \A k \in 1..Len(placed) :
    /\ placed[k].size = <<placed[k].canvas_w, placed[k].canvas_h>>
    /\ placed[k].resized <=> placed[k].natural # <<placed[k].canvas_w, placed[k].canvas_h>>

\* ------------------------------------------------ build_pyramid's loop
\* the larger side of the last entry of the list being built
LastSide == MaxOf(result.levels[Len(result.levels)][1],
                  result.levels[Len(result.levels)][2])

\* C25: build_pyramid terminates for every positive (width, height): each
\* iteration of its loop strictly decreases max(w, h), which is greater
\* than 1 whenever an iteration runs, so the call returns.
C25_PyramidTerminates ==
  /\ <>(pc = "return")
  /\ [][HalveStep => (LastSide > 1 /\ LastSide' < LastSide /\ LastSide' >= 1)]_vars

\* a call on a 9x5 image that has returned its five levels, the same list
\* build_pyramid gives at once
C25_Witness ==
  /\ pc = "return"
  /\ args = [width |-> 9, height |-> 5]
  /\ result.ok
  /\ Len(result.levels) = 5
  /\ result = build_pyramid(args.width, args.height)

\* ------------------------------------------------ resolved levels in range
\* map i of a resolved call is not clamped at its level 0
Unclamped(i) == map_levels.map_info[i].max_level >= map_levels.zoom_out

\* C26: for every list of maps and every requested level in
\* [0, highestMax], _calculate_map_levels gives each map an actual level in
\* [0, mapMaxLevel]; a map whose max level is highestMax gets the requested
\* level; and for two maps that are both unclamped the difference of their
\* actual levels is the difference of their max levels.
C26_LevelsInRange ==
  (mode = "_calculate_map_levels" /\ pc = "return") =>
    LET max_of(i) == get_max_level(map_paths[i].dzi.width, map_paths[i].dzi.height)
        highest == Max({max_of(i) : i \in 1..Len(map_paths)})
        info == map_levels.map_info
    IN  (level >= 0 /\ level <= highest) =>
          /\ map_levels.ok
          /\ DOMAIN info = 1..Len(map_paths)
          /\ \A i \in 1..Len(map_paths) :
               /\ info[i].actual_level >= 0
               /\ info[i].actual_level <= max_of(i)
               /\ max_of(i) = highest => info[i].actual_level = level
          /\ \A i, j \in 1..Len(map_paths) :
               (Unclamped(i) /\ Unclamped(j)) =>
                 info[i].actual_level - info[j].actual_level = max_of(i) - max_of(j)

\* the documented pair (max levels 15 and 11) at requested level 14: both
\* unclamped, at levels 14 and 10
C26_Witness ==
  /\ mode = "_calculate_map_levels"
  /\ pc = "return"
  /\ map_paths = <<ExampleBase, ExampleMod>>
  /\ level = 14
  /\ map_levels.ok
  /\ Unclamped(1) /\ Unclamped(2)
  /\ map_levels.map_info[1].actual_level = 14
  /\ map_levels.map_info[2].actual_level = 10

\* two maps of different depth, the shallower one clamped at its level 0
C26_WitnessClamped ==
  /\ mode = "_calculate_map_levels"
  /\ pc = "return"
  /\ map_levels.ok
  /\ \E i, j \in 1..Len(map_paths) :
       /\ ~Unclamped(i)
       /\ map_levels.map_info[i].actual_level = 0
       /\ map_levels.map_info[j].actual_level = level
       /\ level > 0

\* ------------------------------------------------------- physical scale
\* map m of the run is not clamped at its level 0
UnclampedMap(m) == map_levels.map_info[m].max_level >= map_levels.zoom_out

\* levelScaleUp * scaleFactor of map m is exactly 1
UnitScale(m) ==
  Pow2(map_levels.map_info[m].max_level - map_levels.map_info[m].actual_level)
    * map_levels.scale_factor.num = map_levels.scale_factor.den

\* C27: for every map that is not clamped (mapMaxLevel >= zoomOut),
\* levelScaleUp * scaleFactor = 1, so canvasW and canvasH of each of its
\* tiles equal the tile's natural pixel size and no tile of that map is
\* resampled; only maps clamped to level 0 have their tiles shrunk.
C27_UnitScaleUnclamped ==
  CanvasReady =>
    \A m \in 1..Len(map_paths) :
      /\ UnclampedMap(m) => UnitScale(m)
      /\ LET steps == LoadedStepsOf(m)
         IN \A k \in 1..Len(steps) :
           LET s == steps[k]
           IN  /\ UnclampedMap(m) =>
                    /\ <<s.canvas_w, s.canvas_h>> = s.natural
                    /\ ~s.resized
                    /\ s.size = s.natural
               /\ s.resized =>
                    /\ ~UnclampedMap(m)
                    /\ map_levels.map_info[m].actual_level = 0
                    /\ s.size[1] <= s.natural[1]
                    /\ s.size[2] <= s.natural[2]

\* a finished run of two maps: the tiles of the deeper one pasted at their
\* natural size, a tile of the clamped one resampled
C27_Witness ==
  /\ pc = "Done"
  /\ \E m, n \in 1..Len(map_paths) :
       /\ UnclampedMap(m)
       /\ map_levels.zoom_out > 0
       /\ \E k \in 1..Len(placed) : placed[k].map = m /\ ~placed[k].resized
       /\ ~UnclampedMap(n)
       /\ \E k \in 1..Len(placed) : placed[k].map = n /\ placed[k].resized

\* ------------------------------------------- the canvas holds the content
\* C28: in a stitch_multi_map run on a single map at origin (0, 0), for
\* every requested level L in [0, maxLevel] the canvas is at least as wide
\* and as high as level L of the map's pyramid (hence at least 1x1), so no
\* pixel of a tile of that level's grid falls outside the canvas.
C28_CanvasHoldsLevel ==
  ( /\ mode = "stitch_multi_map"
    /\ canvas.allocated
    /\ Len(map_paths) = 1
    /\ bounds.maps[1].x0 = 0
    /\ bounds.maps[1].y0 = 0 ) =>
    LET pyramid == build_pyramid(map_paths[1].dzi.width, map_paths[1].dzi.height).levels
        steps == LoadedStepsOf(1)
    IN  /\ canvas.size[1] >= pyramid[level + 1][1]
        /\ canvas.size[2] >= pyramid[level + 1][2]
        /\ canvas.size[1] >= 1
        /\ canvas.size[2] >= 1
        /\ \A k \in 1..Len(steps) :
             /\ steps[k].canvas_x >= 0
             /\ steps[k].canvas_y >= 0
             /\ steps[k].canvas_x + steps[k].size[1] <= canvas.size[1]
             /\ steps[k].canvas_y + steps[k].size[2] <= canvas.size[2]

\* ------------------------------------------------- neighbouring tiles
\* C29: within one map that is not clamped, for every map origin, global
\* minimum, zoomOut >= 0 and positive tile size, even or odd, the tile at
\* (tx + 1, ty) is placed exactly tileSize to the right of the tile at
\* (tx, ty) and the tile at (tx, ty + 1) exactly tileSize below it:
\* rounding the fractional origin offset leaves no gap and no overlap
\* between neighbouring full-size tiles.
C29_TilesAbut ==
  (mode = "_stitch_map_onto_canvas" /\ pc = "return") =>
    /\ result.right.canvas_x - result.here.canvas_x = args.tile_size
    /\ result.below.canvas_y - result.here.canvas_y = args.tile_size
    /\ result.here.size = <<args.tile_size, args.tile_size>>

\* ------------------------------------------------- the GUI's generation
\* the worker threads that have not yet handed over their completion
Running == {t \in 1..Len(window.workers) : window.workers[t] # 0}

\* the completions handed to root.after that the main loop has yet to run
PendingCompletions ==
  {k \in 1..Len(window.after) : window.after[k].callback = "_generation_complete"}

C30_WitnessRaised ==
  /\ mode = "window"
  /\ window.is_generating
  /\ Running = {}
  /\ \E k \in PendingCompletions : ~window.after[k].success

====
